---- MODULE Spec2Model ----
(***************************************************************************)
(* NeuralDeck: the extraction-generation pipeline of document_processor.py *)
(* and pipeline_utils.py.                                                  *)
(*                                                                         *)
(*   Spec    one run of generate_qa_pairs: reachability probe, chunking,   *)
(*           pre-flight chunk limit, the worker pool running               *)
(*           _process_chunk_task, and the aggregating as_completed loop.   *)
(*   SpecLM  one call of call_lm_studio: the attempt loop, the streamed    *)
(*           lines, the cancellation probe and the backoff waits.          *)
(*   SpecChunk, SpecFilter, SpecParse  one call of smart_chunk_text, of    *)
(*           filter_and_process_cards and of robust_parse_objects.         *)
(*   SpecRefine  the filter and refinement passes of _process_chunk_task.  *)
(*   SpecPool  the sizing of the worker pool in generate_qa_pairs.         *)
(***************************************************************************)
EXTENDS Integers, Sequences, FiniteSets, TLC

(***************************************************************************)
(* Bounds of the model.                                                    *)
(***************************************************************************)
\* chunk counts 0..MaxChunks are explored with every response mapping
MaxChunks == 3
\* requested concurrency and processor count range over 1..MaxWorkers
MaxWorkers == 2
\* lines a response stream delivers in one attempt of call_lm_studio
MaxLines == 3

\* smart_chunk_text: the longest text and the largest budget
MaxText == 6
MaxBudget == 3

\* filter_and_process_cards: the largest batch of records
MaxBatch == 2

\* robust_parse_objects: the most pieces a text is made of
MaxPieces == 3

\* generate_qa_pairs: the largest requested concurrency
MaxRequested == 8

\* generate_qa_pairs: the largest number of processing units
MaxCpus == 8

(***************************************************************************)
(* Program constants.                                                      *)
(***************************************************************************)
\* ResourceGuard.MAX_CHUNKS
MAX_CHUNKS == 500
\* retries = 3 in call_lm_studio
retries == 3
\* CardValidator.validate(card, min_len=10, max_len=500)
min_len == 10
max_len == 500
\* "if len(a) < 3" in CardValidator.validate
min_answer_len == 3

(***************************************************************************)
(* Text.  A text is a sequence of character codes: 0 is the blank,         *)
(* 1..26 are 'a'..'z', 27..52 are 'A'..'Z'.                                *)
(***************************************************************************)
Blank == 0

Rep(c, n) == [k \in 1..n |-> c]

lower_char(c) == IF c >= 27 /\ c <= 52 THEN c - 26 ELSE c

\* str.lower()
lower(s) == [k \in 1..Len(s) |-> lower_char(s[k])]

RECURSIVE lstrip(_)
lstrip(s) == IF s # <<>> /\ Head(s) = Blank THEN lstrip(Tail(s)) ELSE s

RECURSIVE rstrip(_)
rstrip(s) ==
    IF s # <<>> /\ s[Len(s)] = Blank THEN rstrip(SubSeq(s, 1, Len(s) - 1)) ELSE s

\* str.strip()
strip(s) == rstrip(lstrip(s))

\* faulty variant: no upper limit on the lengths
validate_Unbounded(card) ==
    LET q == strip(card.question)
        a == strip(card.answer)
    IN  IF q = <<>> \/ a = <<>> THEN "Empty Question or Answer"
        ELSE IF Len(q) < min_len THEN "Question too short"
        ELSE IF Len(a) < min_answer_len THEN "Answer too short"
        ELSE IF lower(q) = lower(a) THEN "Question and Answer are identical"
        ELSE ""

(***************************************************************************)
(* CardValidator.validate: the reason of the first failing check, or ""    *)
(* for an accepted card.                                                   *)
(***************************************************************************)
validate(card) ==
    LET q == strip(card.question)
        a == strip(card.answer)
    IN  IF q = <<>> \/ a = <<>> THEN "Empty Question or Answer"
        ELSE IF Len(q) < min_len THEN "Question too short"
        ELSE IF Len(a) < min_answer_len THEN "Answer too short"
        ELSE IF Len(q) > max_len \/ Len(a) > max_len * 2
             THEN "Content exceeds max length"
        ELSE IF lower(q) = lower(a) THEN "Question and Answer are identical"
        ELSE ""

valid(card) == validate(card) = ""

(***************************************************************************)
(* The cards a chunk's response yields.  The model is an external          *)
(* collaborator: what it answers on a chunk is an input of the run.  A     *)
(* response either makes call_lm_studio raise or is the list of cards      *)
(* _process_chunk_task obtains from the response text.                     *)
(***************************************************************************)
Q1 == Rep(1, 10)
Q1Upper == Rep(27, 10)
QShort == Rep(3, 9)
A1 == Rep(4, 3)
A2 == Rep(5, 3)

Card(q, a) == [question |-> q, answer |-> a]

Raises == [raises |-> TRUE, cards |-> <<>>]
Returns(cards) == [raises |-> FALSE, cards |-> cards]

Responses ==
    { Raises,
      Returns(<<>>),
      Returns(<<Card(Q1, A1)>>),
      Returns(<<Card(Q1, A2)>>),
      Returns(<<Card(QShort, A1), Card(Q1Upper, A1)>>) }

\* the chunk counts the chunker may yield: small documents, and documents
\* at the pre-flight limit
ChunkCounts == (0..MaxChunks) \cup {MAX_CHUNKS, MAX_CHUNKS + 1}

\* pipeline_utils.py line 84, the slice chunk_text[:200]
preview_len == 200

\* the texts of the chunks: the first is one character longer than a preview,
\* the second exactly as long, the others are short; chunk i is made of the
\* character i, so the chunks differ
chunk_texts(n) ==
    [i \in 1..n |->
       Rep(i, IF i = 1 THEN preview_len + 1 ELSE IF i = 2 THEN preview_len ELSE 1)]

ResponseMaps(n) ==
    IF n <= MaxChunks THEN [1..n -> Responses] ELSE {[i \in 1..n |-> Returns(<<>>)]}

(***************************************************************************)
(* State.                                                                  *)
(***************************************************************************)
VARIABLES
    \* ---- generate_qa_pairs ----
    pc,                    \* position of the calling thread in generate_qa_pairs
    stop,                  \* what stop_callback() answers; once TRUE it stays TRUE
    deterministic_mode,    \* argument of generate_qa_pairs
    concurrency,           \* argument, overwritten by the clamped pool size
    probe,                 \* what check_llm_server observed on its two probes
    response,              \* chunk index -> response of the model on that chunk
    task,                  \* chunk index -> "queued" | "calling" | "done"
    fut,                   \* chunk index -> the future of its task
    model_calls,           \* chunk index -> generation calls of call_lm_studio
    finished_snapshot,     \* as_completed: futures finished at its call, not yet yielded
    waiter,                \* as_completed: futures finished later, in completion order
    consumed,              \* chunks whose future.result() the loop has read
    all_qa_pairs,          \* the result list
    seen_questions_global, \* the global set of accepted question texts
    metrics,               \* PipelineStats.metrics (the counters)
    failed_chunks_log,     \* failed_chunks_log.jsonl, one entry per line
    rejected_cards_log,    \* rejected_cards_log.jsonl, one entry per line
    partial_result_callback, \* argument: a streaming callback is registered
    delivered,             \* the batches partial_result_callback has received
    raising,               \* the operation that raises in this run, or "none"
    refine_calls,          \* chunk index -> calls of refine_generated_cards
    chunks,                \* chunk index -> the text of the chunk
    aborted_call,          \* chunk index -> the call the probe aborted, or "none"
    \* ---- call_lm_studio ----
    lm_pc,                 \* position inside call_lm_studio
    attempt,               \* the loop variable of "for attempt in range(retries)"
    requests,              \* urlopen calls issued by this call
    full_response,         \* the fragments accumulated in this attempt
    lines,                 \* the lines received in this attempt
    probe_calls,           \* calls of stop_callback made by this call
    last_exception,        \* last_exception
    sleeps,                \* the waits passed to time.sleep, in order
    failures,              \* the failure of each failed attempt, in order
    lm_result,             \* what the call returned or raised
    \* ---- smart_chunk_text ----
    ch_pc,                 \* "idle" | "called" | "returned"
    ch_text,               \* argument text
    ch_max_chars,          \* argument max_chars
    ch_min_chars,          \* argument min_chars
    ch_chunks,             \* the returned list (merged_chunks)
    \* ---- filter_and_process_cards ----
    flt_pc,                \* "idle" | "called" | "returned"
    raw_data_list,         \* argument raw_data_list
    deck_names,            \* argument deck_names
    smart_deck_match,      \* argument smart_deck_match
    filter_yes_no,         \* argument filter_yes_no
    flt_result,            \* what the call returned or raised
    \* ---- robust_parse_objects ----
    prs_pc,                \* "idle" | "called" | "scan" | "returned"
    prs_text,              \* argument text, then the text without its fences
    pos,                   \* pos, counted from 0
    results,               \* results
    decoded,               \* the objects raw_decode has returned, in order
    iterations,            \* the iterations of the scan loop begun so far
    \* ---- _process_chunk_task, from the parsed response on (lines 599-617);
    \* ---- its data, deck_names, smart_deck_match and filter_yes_no are the
    \* ---- variables raw_data_list, deck_names, smart_deck_match, filter_yes_no
    rf_pc,                 \* "idle" | "first_pass" | "refine" | "second_pass" | "done"
    ai_refinement,         \* argument ai_refinement
    temp_cards,            \* temp_cards
    refinement,            \* what the refinement call did
    refined_raw,           \* refined_raw
    chunk_cards,           \* chunk_cards
    chunk_error,           \* an exception was caught (line 619)
    \* ---- generate_qa_pairs, the creation of the worker pool (lines 774-790)
    pl_pc,                 \* "idle" | "sizing" | "created"
    pl_concurrency,        \* argument concurrency
    pl_deterministic_mode, \* argument deterministic_mode
    os_cpu_count,          \* what os.cpu_count() returns, 0 for None
    max_workers,           \* max_workers of the ThreadPoolExecutor
    \* ---- PipelineStats, its mutators called from several threads ----
    ps_lock,               \* self._lock: the thread holding it, 0 for none
    ps_metrics,            \* self.metrics (the counters)
    ps_pc,                 \* thread -> "idle" | "locked" | "read" | "written"
    ps_call,               \* thread -> the mutator call it is in: key and amount
    ps_tmp,                \* thread -> the value it read from its counter
    ps_left,               \* thread -> the calls it has still to make
    ps_applied,            \* counter -> the sum of the amounts written to it
    \* ---- FailureLogger, its log calls made from several threads ----
    fl_lock,               \* _file_lock: the thread holding it, 0 for none
    fl_pc,                 \* thread -> "idle" | "locked" | "opened" | "head" | "dumped" | "line"
    fl_entry,              \* thread -> the entry it is appending
    fl_path,               \* thread -> the file it appends to
    fl_files,              \* file -> its content, one element per write
    fl_order,              \* file -> the entries in the order their calls took the lock
    fl_left                \* thread -> the calls it has still to make

runVars ==
    <<pc, stop, deterministic_mode, concurrency, probe, response, task, fut,
      model_calls, finished_snapshot, waiter, consumed, all_qa_pairs,
      seen_questions_global, metrics, failed_chunks_log, rejected_cards_log,
      partial_result_callback, delivered, raising, refine_calls, chunks, aborted_call>>

lmVars ==
    <<lm_pc, attempt, requests, full_response, lines, probe_calls,
      last_exception, sleeps, failures, lm_result>>

chunkVars == <<ch_pc, ch_text, ch_max_chars, ch_min_chars, ch_chunks>>

\* the variables of the functions called on their own
filterVars ==
    <<flt_pc, raw_data_list, deck_names, smart_deck_match, filter_yes_no,
      flt_result>>

parseVars == <<prs_pc, prs_text, pos, results, decoded, iterations>>

refineVars ==
    <<rf_pc, ai_refinement, temp_cards, refinement, refined_raw, chunk_cards,
      chunk_error>>

poolVars ==
    <<pl_pc, pl_concurrency, pl_deterministic_mode, os_cpu_count, max_workers>>

statsVars == <<ps_lock, ps_metrics, ps_pc, ps_call, ps_tmp, ps_left, ps_applied>>

logVars == <<fl_lock, fl_pc, fl_entry, fl_path, fl_files, fl_order, fl_left>>

\* the variables of pipeline_utils' shared objects
utilVars == <<statsVars, logVars>>

fnVars == <<chunkVars, filterVars, parseVars, refineVars, poolVars, utilVars>>

vars == <<runVars, lmVars, fnVars>>

NoProbe == [models |-> "untried", tcp |-> "untried"]

Pending == [state |-> "pending", exc |-> FALSE, cards |-> <<>>]
Finished(cards) == [state |-> "finished", exc |-> FALSE, cards |-> cards]

\* the task raised: future.result() raises in the aggregating loop
Failed == [state |-> "finished", exc |-> TRUE, cards |-> <<>>]

Chunks == DOMAIN response

(***************************************************************************)
(* PipelineStats: every mutator adds to one counter under the lock.        *)
(***************************************************************************)
PipelineStats ==
    [total_chunks |-> 0, processed_chunks |-> 0, failed_chunks |-> 0,
     cards_generated |-> 0, cards_rejected |-> 0]

increment_chunk_count(m) == [m EXCEPT !.total_chunks = @ + 1]
increment_processed_chunk(m) == [m EXCEPT !.processed_chunks = @ + 1]
increment_failed_chunk(m) == [m EXCEPT !.failed_chunks = @ + 1]
add_generated_cards(m, count) == [m EXCEPT !.cards_generated = @ + count]
add_rejected_cards(m, count) == [m EXCEPT !.cards_rejected = @ + count]

\* "for _ in chunks: pipeline_stats.increment_chunk_count()": n increments
count_chunks(m, n) == [m EXCEPT !.total_chunks = @ + n]

(***************************************************************************)
(* ResourceGuard.check_chunk_count: TRUE when it raises.                   *)
(***************************************************************************)
\* faulty variant: the limit itself is refused
check_chunk_count_Inclusive(count) == count >= MAX_CHUNKS

check_chunk_count(count) == count > MAX_CHUNKS

(***************************************************************************)
(* check_llm_server: TRUE when it returns True, FALSE when it raises       *)
(* ConnectionError.  models_ok: the models-listing request answered 200;   *)
(* tcp_ok: the raw socket connect succeeded (tried only after the first    *)
(* probe failed).                                                          *)
(***************************************************************************)
\* faulty variant: no fallback to the socket connect
check_llm_server_NoFallback(models_ok, tcp_ok) == models_ok

check_llm_server(models_ok, tcp_ok) == IF models_ok THEN TRUE ELSE tcp_ok

(***************************************************************************)
(* The size of the worker pool: lines 775-787 of generate_qa_pairs.        *)
(***************************************************************************)
Max(a, b) == IF a >= b THEN a ELSE b

\* faulty variant: the requested concurrency is not limited
pool_size_NoClamp(requested, cpu_count, deterministic) ==
    IF deterministic THEN 1 ELSE requested

\* lines 775-787
pool_size(requested, cpu_count, deterministic) ==
    LET max_safe_workers == Max(1, cpu_count)
        clamped == IF requested > max_safe_workers THEN max_safe_workers
                   ELSE requested
    IN  IF deterministic THEN 1 ELSE clamped

(***************************************************************************)
(* The body of the aggregating loop for one chunk's cards (lines 838-860): *)
(* validate, then deduplicate on the exact question text.                  *)
(***************************************************************************)
AggState(all, seen, m, rejlog) ==
    [all |-> all, seen |-> seen, unique |-> <<>>, m |-> m, rejlog |-> rejlog,
     raised |-> FALSE]

\* faulty variant: the question is not looked up in the seen set
aggregate_card_NoLookup(st, card) ==
    IF ~valid(card)
    THEN [st EXCEPT !.m = add_rejected_cards(@, 1),
                    !.rejlog = Append(@, [card |-> card, reason |-> validate(card)])]
    ELSE [st EXCEPT !.seen = @ \cup {card.question},
                    !.unique = Append(@, card),
                    !.all = Append(@, card)]

\* faulty variant: questions are compared ignoring case
aggregate_card_IgnoreCase(st, card) ==
    IF ~valid(card)
    THEN [st EXCEPT !.m = add_rejected_cards(@, 1),
                    !.rejlog = Append(@, [card |-> card, reason |-> validate(card)])]
    ELSE IF lower(card.question) \notin st.seen
    THEN [st EXCEPT !.seen = @ \cup {lower(card.question)},
                    !.unique = Append(@, card),
                    !.all = Append(@, card)]
    ELSE [st EXCEPT !.m = add_rejected_cards(@, 1)]

\* faulty variant: the question is remembered before the card is validated
aggregate_card_SeenFirst(st, card) ==
    IF ~valid(card)
    THEN [st EXCEPT !.m = add_rejected_cards(@, 1),
                    !.seen = @ \cup {card.question},
                    !.rejlog = Append(@, [card |-> card, reason |-> validate(card)])]
    ELSE IF card.question \notin st.seen
    THEN [st EXCEPT !.seen = @ \cup {card.question},
                    !.unique = Append(@, card),
                    !.all = Append(@, card)]
    ELSE [st EXCEPT !.m = add_rejected_cards(@, 1)]

aggregate_card(st, card) ==
    IF ~valid(card)
    THEN [st EXCEPT !.m = add_rejected_cards(@, 1),
                    !.rejlog = Append(@, [card |-> card, reason |-> validate(card)])]
    ELSE IF card.question \notin st.seen
    THEN [st EXCEPT !.seen = @ \cup {card.question},
                    !.unique = Append(@, card),
                    !.all = Append(@, card)]
    ELSE [st EXCEPT !.m = add_rejected_cards(@, 1)]

RECURSIVE aggregate_cards(_, _)
aggregate_cards(st, new_cards) ==
    IF new_cards = <<>> THEN st
    ELSE aggregate_cards(aggregate_card(st, Head(new_cards)), Tail(new_cards))

\* faulty variant: the accepted cards are not counted
aggregate_chunk_Uncounted(all, seen, m, rejlog, new_cards) ==
    aggregate_cards(AggState(all, seen, m, rejlog), new_cards)

\* one iteration of the loop on the cards of one future (lines 835-868)
aggregate_chunk(all, seen, m, rejlog, new_cards) ==
    LET st == aggregate_cards(AggState(all, seen, m, rejlog), new_cards)
    IN  IF st.unique # <<>>
        THEN [st EXCEPT !.m = add_generated_cards(@, Len(st.unique))]
        ELSE st

NoResult == [kind |-> "none"]
NoException == [msg |-> "none", cause |-> "none"]

\* call_lm_studio at its first line: nothing requested, nothing received
LMStart(at) ==
    /\ lm_pc = at
    /\ attempt = 0
    /\ requests = 0
    /\ full_response = <<>>
    /\ lines = <<>>
    /\ probe_calls = 0
    /\ last_exception = NoException
    /\ sleeps = <<>>
    /\ failures = <<>>
    /\ lm_result = NoResult

LMIdle == LMStart("idle")

\* smart_chunk_text is not being called
ChunkIdle ==
    /\ ch_pc = "idle"
    /\ ch_text = <<>>
    /\ ch_max_chars = 1
    /\ ch_min_chars = 0
    /\ ch_chunks = <<>>

\* filter_and_process_cards is not being called
FilterIdle ==
    /\ flt_pc = "idle"
    /\ raw_data_list = <<>>
    /\ deck_names = <<>>
    /\ smart_deck_match = FALSE
    /\ filter_yes_no = FALSE
    /\ flt_result = [raises |-> FALSE, cards |-> <<>>]

\* robust_parse_objects is not being called
ParseIdle ==
    /\ prs_pc = "idle"
    /\ prs_text = <<>>
    /\ pos = 0
    /\ results = <<>>
    /\ decoded = <<>>
    /\ iterations = 0

\* no refinement call was made
NoRefinement == [kind |-> "none", records |-> <<>>]

\* the passes of _process_chunk_task are not running
RefineIdle ==
    /\ rf_pc = "idle"
    /\ ai_refinement = FALSE
    /\ temp_cards = <<>>
    /\ refinement = NoRefinement
    /\ refined_raw = <<>>
    /\ chunk_cards = <<>>
    /\ chunk_error = FALSE

\* no worker pool is being sized
PoolIdle ==
    /\ pl_pc = "idle"
    /\ pl_concurrency = 1
    /\ pl_deterministic_mode = FALSE
    /\ os_cpu_count = 1
    /\ max_workers = 0

LogFiles == {"failed_chunks_log.jsonl", "rejected_cards_log.jsonl"}

\* no thread is calling a mutator of PipelineStats
StatsIdle ==
    /\ ps_lock = 0
    /\ ps_metrics = PipelineStats
    /\ ps_pc = <<>>
    /\ ps_call = <<>>
    /\ ps_tmp = <<>>
    /\ ps_left = <<>>
    /\ ps_applied = PipelineStats

\* no thread is calling the FailureLogger
LogIdle ==
    /\ fl_lock = 0
    /\ fl_pc = <<>>
    /\ fl_entry = <<>>
    /\ fl_path = <<>>
    /\ fl_files = [f \in LogFiles |-> <<>>]
    /\ fl_order = [f \in LogFiles |-> <<>>]
    /\ fl_left = <<>>

UtilIdle == StatsIdle /\ LogIdle

FnIdle ==
    ChunkIdle /\ FilterIdle /\ ParseIdle /\ RefineIdle /\ PoolIdle /\ UtilIdle

(***************************************************************************)
(* Init: generate_qa_pairs has been called; nothing has happened yet.      *)
(***************************************************************************)
Init ==
    /\ pc = "health"
    /\ stop = FALSE
    /\ deterministic_mode \in BOOLEAN
    /\ concurrency \in 1..MaxWorkers
    /\ probe = NoProbe
    /\ response = <<>>
    /\ task = <<>>
    /\ fut = <<>>
    /\ model_calls = <<>>
    /\ finished_snapshot = {}
    /\ waiter = <<>>
    /\ consumed = {}
    /\ all_qa_pairs = <<>>
    /\ seen_questions_global = {}
    /\ metrics = PipelineStats
    /\ failed_chunks_log = <<>>
    /\ rejected_cards_log = <<>>
    /\ partial_result_callback = FALSE
    /\ delivered = <<>>
    /\ raising = "none"
    /\ refine_calls = <<>>
    /\ chunks = <<>>
    /\ aborted_call = <<>>
    /\ LMIdle
    /\ FnIdle

(***************************************************************************)
(* Lines 672-678: the reachability probe; on failure the run returns [].   *)
(***************************************************************************)
HealthCheck ==
    /\ pc = "health"
    /\ \E models_ok \in BOOLEAN, tcp_ok \in BOOLEAN :
         /\ probe' = [models |-> IF models_ok THEN "ok" ELSE "fail",
                      tcp |-> IF models_ok THEN "untried"
                              ELSE IF tcp_ok THEN "ok" ELSE "fail"]
         /\ pc' = IF check_llm_server(models_ok, tcp_ok) THEN "chunk" ELSE "returned"
    /\ UNCHANGED <<stop, deterministic_mode, concurrency, response, task, fut,
                   model_calls, finished_snapshot, waiter, consumed, all_qa_pairs,
                   seen_questions_global, metrics, failed_chunks_log,
                   rejected_cards_log>>
    /\ UNCHANGED <<partial_result_callback, delivered, raising, refine_calls, chunks, aborted_call>>
    /\ UNCHANGED <<lmVars, fnVars>>

(***************************************************************************)
(* Lines 759-766: chunk the text, count the chunks, enforce the limit.     *)
(***************************************************************************)
ChunkText ==
    /\ pc = "chunk"
    /\ \E n \in ChunkCounts : \E r \in ResponseMaps(n) :
         /\ response' = r
         /\ chunks' = chunk_texts(n)
         /\ metrics' = count_chunks(metrics, n)
         /\ pc' = IF check_chunk_count(n) THEN "raised" ELSE "pool"
    /\ probe' = NoProbe
    /\ UNCHANGED <<stop, deterministic_mode, concurrency, task, fut, model_calls,
                   finished_snapshot, waiter, consumed, all_qa_pairs,
                   seen_questions_global, failed_chunks_log, rejected_cards_log>>
    /\ UNCHANGED <<partial_result_callback, delivered, raising, refine_calls,
                   aborted_call>>
    /\ UNCHANGED <<lmVars, fnVars>>

(***************************************************************************)
(* Lines 775-818: clamp the concurrency, create the pool, submit one       *)
(* _process_chunk_task per chunk.  The submissions read nothing the        *)
(* workers write, so they are taken in one step.  The dispatch is explored *)
(* for documents of at most MaxChunks chunks.                              *)
(***************************************************************************)
Submit ==
    /\ pc = "pool"
    /\ Cardinality(Chunks) <= MaxChunks
    /\ \E cpu_count \in 1..MaxWorkers :
         concurrency' = pool_size(concurrency, cpu_count, deterministic_mode)
    /\ task' = [i \in Chunks |-> "queued"]
    /\ fut' = [i \in Chunks |-> Pending]
    /\ model_calls' = [i \in Chunks |-> 0]
    /\ refine_calls' = [i \in Chunks |-> 0]
    /\ aborted_call' = [i \in Chunks |-> "none"]
    /\ pc' = "as_completed"
    /\ UNCHANGED <<stop, deterministic_mode, probe, response, finished_snapshot,
                   waiter, consumed, all_qa_pairs, seen_questions_global, metrics,
                   failed_chunks_log, rejected_cards_log>>
    /\ UNCHANGED <<partial_result_callback, delivered, raising, chunks>>
    /\ UNCHANGED <<lmVars, fnVars>>

(***************************************************************************)
(* Line 829, the call as_completed(future_to_index): the futures already   *)
(* finished are collected in a set; they are yielded first, in the set's   *)
(* iteration order.  Futures finishing later are yielded as they finish.   *)
(***************************************************************************)
AsCompleted ==
    /\ pc = "as_completed"
    /\ finished_snapshot' = {i \in Chunks : task[i] = "done"}
    /\ pc' = "loop"
    /\ UNCHANGED <<stop, deterministic_mode, concurrency, probe, response, task,
                   fut, model_calls, waiter, consumed, all_qa_pairs,
                   seen_questions_global, metrics, failed_chunks_log,
                   rejected_cards_log>>
    /\ UNCHANGED <<partial_result_callback, delivered, raising, refine_calls, chunks, aborted_call>>
    /\ UNCHANGED <<lmVars, fnVars>>

Submitted == pc \in {"as_completed", "loop", "shutdown"}

Running == {i \in Chunks : task[i] = "calling"}

\* the pool's work queue is first in, first out: the task a free worker takes
OldestQueued ==
    {i \in Chunks : task[i] = "queued" /\ (i = 1 \/ task[i - 1] # "queued")}

\* faulty variant: as_completed does not hear of a future finishing
notify_Lost(i) == waiter

\* the future of chunk i finishes: as_completed's waiter hears of it
notify(i) == IF pc = "loop" THEN Append(waiter, i) ELSE waiter

(***************************************************************************)
(* _process_chunk_task, lines 568-594: a free worker takes the oldest      *)
(* queued task, consults the cancellation probe and issues the call.       *)
(***************************************************************************)
\* faulty variant: the task does not consult the probe
probe_before_dispatch_Skipped(i) == FALSE

probe_before_dispatch(i) == stop

TaskStart(i) ==
    /\ Submitted
    /\ i \in OldestQueued
    /\ Cardinality(Running) < concurrency
    /\ IF probe_before_dispatch(i)
       THEN /\ task' = [task EXCEPT ![i] = "done"]
            /\ fut' = [fut EXCEPT ![i] = Finished(<<>>)]
            /\ waiter' = notify(i)
            /\ UNCHANGED model_calls
       ELSE /\ task' = [task EXCEPT ![i] = "calling"]
            /\ model_calls' = [model_calls EXCEPT ![i] = @ + 1]
            /\ UNCHANGED <<fut, waiter>>
    /\ UNCHANGED <<pc, stop, deterministic_mode, concurrency, probe, response,
                   finished_snapshot, consumed, all_qa_pairs,
                   seen_questions_global, metrics, failed_chunks_log,
                   rejected_cards_log>>
    /\ UNCHANGED <<partial_result_callback, delivered, raising, refine_calls, chunks, aborted_call>>
    /\ UNCHANGED <<lmVars, fnVars>>

(***************************************************************************)
(* _process_chunk_task, lines 594-653: the call returns or raises; the     *)
(* chunk is counted processed or failed; a failure is logged and the task  *)
(* returns [].  A call in flight while cancellation is requested may be    *)
(* aborted by the probe inside the stream.                                 *)
(***************************************************************************)
task_result(r, error_occurred) ==
    IF error_occurred THEN <<>> ELSE r.cards

\* faulty variant: a failed chunk is counted as processed
task_metrics_ErrorIgnored(m, error_occurred) == increment_processed_chunk(m)

task_metrics(m, error_occurred) ==
    IF error_occurred THEN increment_failed_chunk(m)
    ELSE increment_processed_chunk(m)

\* faulty variant: a response without cards is taken for an error
generation_failed_OnEmpty(r) == r.raises \/ r.cards = <<>>

\* lines 593-620: something inside the try block raised
generation_failed(r) == r.raises

\* faulty variant: the refinement pass ignores its switch
refinement_due_Unconditional(enabled, first) ==
    ~first.raises /\ first.cards # <<>>

\* line 607: "if ai_refinement and temp_cards"
refinement_due(enabled, first) == enabled /\ ~first.raises /\ first.cards # <<>>

\* lines 612-614: what refine_generated_cards and the second filtering pass
\* make of temp_cards: the cards kept, every card dropped, or the pass raises
RefinedResponses(cards) == {Returns(cards), Returns(<<>>), Raises}

\* lines 612 and 427-430: how the call made by refine_generated_cards ends:
\* it returns or gives up ("response", what the second pass then yields is
\* RefinedResponses), or the probe aborts the stream (only once cancellation
\* is requested)
RefinementOutcomes(stopped) ==
    {"response"} \cup (IF stopped THEN {"stopped"} ELSE {})

\* lines 147-148 of call_lm_studio, seen from the task: the call the probe
\* aborted in the middle of its stream
aborted_in(aborted, outcome) ==
    IF aborted THEN "generation"
    ELSE IF outcome = "stopped" THEN "refinement"
    ELSE "none"

\* faulty variant: a refinement call that raises fails the chunk
refined_NoFallback(outcome, cards) ==
    IF outcome = "response" THEN RefinedResponses(cards) ELSE {Raises}

\* lines 427-430 and 614: when its call raises, refine_generated_cards returns
\* the cards it was given, and the second filtering pass keeps them
refined(outcome, cards) ==
    IF outcome = "response" THEN RefinedResponses(cards) ELSE {Returns(cards)}

\* line 817, enumerate(chunks): the index the task is given for the k-th chunk
enumerate_index(k) == k - 1

\* pipeline_utils.py lines 78-86, the entry log_failed_chunk writes
failed_chunk_entry(chunk_index, chunk_text, error) ==
    [chunk_index |-> chunk_index,
     error |-> error,
     chunk_preview |->
         SubSeq(chunk_text, 1,
                IF Len(chunk_text) <= preview_len THEN Len(chunk_text)
                ELSE preview_len)]

\* line 619, str(e)
error_text(i, aborted) ==
    IF response[i].raises THEN "model call failed"
    ELSE IF aborted THEN "Processing stopped by user."
    ELSE "second pass failed"

TaskFinish(i) ==
    /\ Submitted
    /\ task[i] = "calling"
    /\ \E aborted \in (IF stop THEN BOOLEAN ELSE {FALSE}) :
       \E first \in {IF aborted THEN Raises ELSE response[i]} :
       \E outcome \in (IF refinement_due(ai_refinement, first)
                       THEN RefinementOutcomes(stop) ELSE {"none"}) :
       \E r \in (IF outcome = "none" THEN {first}
                 ELSE refined(outcome, first.cards)) :
       \E error_occurred \in {generation_failed(r)} :
         /\ refine_calls' =
              [refine_calls EXCEPT ![i] = IF outcome = "none" THEN @ ELSE @ + 1]
         /\ aborted_call' = [aborted_call EXCEPT ![i] = aborted_in(aborted, outcome)]
         /\ metrics' = task_metrics(metrics, error_occurred)
         /\ IF error_occurred /\ raising = "log_failed_chunk"
            THEN \* lines 647-650: the write raises, and so does the task
                 /\ fut' = [fut EXCEPT ![i] = Failed]
                 /\ UNCHANGED failed_chunks_log
            ELSE /\ failed_chunks_log' =
                      IF error_occurred
                      THEN Append(failed_chunks_log,
                                  failed_chunk_entry(enumerate_index(i) + 1,
                                                     chunks[i],
                                                     error_text(i, aborted)))
                      ELSE failed_chunks_log
                 /\ fut' = [fut EXCEPT ![i] = Finished(task_result(r, error_occurred))]
    /\ task' = [task EXCEPT ![i] = "done"]
    /\ waiter' = notify(i)
    /\ UNCHANGED <<pc, stop, deterministic_mode, concurrency, probe, response,
                   model_calls, finished_snapshot, consumed, all_qa_pairs,
                   seen_questions_global, rejected_cards_log>>
    /\ UNCHANGED <<partial_result_callback, delivered, raising, chunks>>
    /\ UNCHANGED <<lmVars, fnVars>>

(***************************************************************************)
(* Lines 829-873: one iteration of the aggregating loop.                   *)
(***************************************************************************)
\* the futures as_completed may yield next
NextFuture ==
    IF finished_snapshot # {} THEN finished_snapshot
    ELSE IF waiter # <<>> THEN {Head(waiter)}
    ELSE {}

probe_before_consume == stop

\* lines 836-868 when log_rejected_card raises: the loop on the cards ends at
\* the first invalid card, after it was counted; without one it ends as usual
RECURSIVE aggregate_until_raise(_, _)
aggregate_until_raise(st, new_cards) ==
    IF new_cards = <<>>
    THEN IF st.unique # <<>>
         THEN [st EXCEPT !.m = add_generated_cards(@, Len(st.unique))]
         ELSE st
    ELSE IF ~valid(Head(new_cards))
    THEN [st EXCEPT !.m = add_rejected_cards(@, 1), !.raised = TRUE]
    ELSE aggregate_until_raise(aggregate_card(st, Head(new_cards)), Tail(new_cards))

\* lines 835-861: future.result() and the loop on its cards
loop_body(all, seen, m, rejlog, f, raise_op) ==
    IF f.exc THEN [AggState(all, seen, m, rejlog) EXCEPT !.raised = TRUE]
    ELSE IF raise_op = "log_rejected_card"
    THEN aggregate_until_raise(AggState(all, seen, m, rejlog), f.cards)
    ELSE aggregate_chunk(all, seen, m, rejlog, f.cards)

\* faulty variant: the callback is called for every chunk
callback_due_Always(registered, st) == registered /\ ~st.raised

\* line 867: "if partial_result_callback and unique_new_cards"
callback_due(registered, st) == registered /\ ~st.raised /\ st.unique # <<>>

Consume(i) ==
    /\ pc = "loop"
    /\ i \in NextFuture
    /\ IF probe_before_consume
       THEN /\ pc' = "shutdown"
            /\ finished_snapshot' = {}
            /\ waiter' = <<>>
            /\ UNCHANGED <<consumed, all_qa_pairs, seen_questions_global,
                           metrics, rejected_cards_log, delivered>>
       ELSE /\ finished_snapshot' = finished_snapshot \ {i}
            /\ waiter' = IF finished_snapshot # {} THEN waiter ELSE Tail(waiter)
            /\ consumed' = consumed \cup {i}
            /\ \E st \in {loop_body(all_qa_pairs, seen_questions_global, metrics,
                                    rejected_cards_log, fut[i], raising)} :
               \E callback_raises \in {callback_due(partial_result_callback, st)
                                         /\ raising = "partial_result_callback"} :
                 /\ all_qa_pairs' = st.all
                 /\ seen_questions_global' = st.seen
                 /\ rejected_cards_log' = st.rejlog
                 \* line 870: whatever was raised, the chunk is counted failed
                 /\ metrics' = IF st.raised \/ callback_raises
                               THEN increment_failed_chunk(st.m) ELSE st.m
                 /\ delivered' =
                      IF callback_due(partial_result_callback, st) /\ ~callback_raises
                      THEN Append(delivered, st.unique) ELSE delivered
            /\ UNCHANGED pc
    /\ UNCHANGED <<stop, deterministic_mode, concurrency, probe, response, task,
                   fut, model_calls, failed_chunks_log>>
    /\ UNCHANGED <<partial_result_callback, raising, refine_calls, chunks, aborted_call>>
    /\ UNCHANGED <<lmVars, fnVars>>

\* every future has been yielded: the for loop ends, the generator is gone
LoopEnd ==
    /\ pc = "loop"
    /\ consumed = Chunks
    /\ pc' = "shutdown"
    /\ finished_snapshot' = {}
    /\ waiter' = <<>>
    /\ UNCHANGED <<stop, deterministic_mode, concurrency, probe, response, task,
                   fut, model_calls, consumed,
                   all_qa_pairs, seen_questions_global, metrics,
                   failed_chunks_log, rejected_cards_log>>
    /\ UNCHANGED <<partial_result_callback, delivered, raising, refine_calls, chunks, aborted_call>>
    /\ UNCHANGED <<lmVars, fnVars>>

(***************************************************************************)
(* Leaving the "with ThreadPoolExecutor" block waits for every submitted   *)
(* task; then generate_qa_pairs returns all_qa_pairs (lines 790, 878-881). *)
(***************************************************************************)
Return ==
    /\ pc = "shutdown"
    /\ \A i \in Chunks : task[i] = "done"
    /\ pc' = "returned"
    /\ UNCHANGED <<stop, deterministic_mode, concurrency, probe, response, task,
                   fut, model_calls, finished_snapshot, waiter, consumed,
                   all_qa_pairs, seen_questions_global, metrics,
                   failed_chunks_log, rejected_cards_log>>
    /\ UNCHANGED <<partial_result_callback, delivered, raising, refine_calls, chunks, aborted_call>>
    /\ UNCHANGED <<lmVars, fnVars>>

\* the caller requests cancellation: stop_callback answers TRUE from now on
Cancel ==
    /\ ~stop
    /\ pc \notin {"returned", "raised"}
    /\ stop' = TRUE
    /\ UNCHANGED <<pc, deterministic_mode, concurrency, probe, response, task,
                   fut, model_calls, finished_snapshot, waiter, consumed,
                   all_qa_pairs, seen_questions_global, metrics,
                   failed_chunks_log, rejected_cards_log>>
    /\ UNCHANGED <<partial_result_callback, delivered, raising, refine_calls, chunks, aborted_call>>
    /\ UNCHANGED <<lmVars, fnVars>>

Next ==
    \/ HealthCheck
    \/ ChunkText
    \/ Submit
    \/ AsCompleted
    \/ \E i \in (IF Submitted THEN OldestQueued ELSE {}) : TaskStart(i)
    \/ \E i \in (IF Submitted THEN Running ELSE {}) : TaskFinish(i)
    \/ \E i \in NextFuture : Consume(i)
    \/ LoopEnd
    \/ Return
    \/ Cancel

Spec == Init /\ [][Next]_vars

(***************************************************************************)
(* The run with its options and an environment in which one operation      *)
(* raises whenever it is called: a streaming callback is registered, the   *)
(* refinement pass is enabled, a log file cannot be written, or the        *)
(* callback itself raises.                                                 *)
(***************************************************************************)
RunOptions ==
    { [callback |-> TRUE,  raising |-> "none",                    refine |-> FALSE],
      [callback |-> TRUE,  raising |-> "partial_result_callback", refine |-> FALSE],
      [callback |-> FALSE, raising |-> "log_failed_chunk",        refine |-> FALSE],
      [callback |-> FALSE, raising |-> "log_rejected_card",       refine |-> FALSE],
      [callback |-> FALSE, raising |-> "none",                    refine |-> TRUE] }

InitFull ==
    /\ pc = "health"
    /\ stop = FALSE
    /\ deterministic_mode = FALSE
    /\ concurrency \in 1..MaxWorkers
    /\ probe = NoProbe
    /\ response = <<>>
    /\ task = <<>>
    /\ fut = <<>>
    /\ model_calls = <<>>
    /\ finished_snapshot = {}
    /\ waiter = <<>>
    /\ consumed = {}
    /\ all_qa_pairs = <<>>
    /\ seen_questions_global = {}
    /\ metrics = PipelineStats
    /\ failed_chunks_log = <<>>
    /\ rejected_cards_log = <<>>
    /\ delivered = <<>>
    /\ refine_calls = <<>>
    /\ chunks = <<>>
    /\ aborted_call = <<>>
    /\ \E o \in RunOptions :
         /\ partial_result_callback = o.callback
         /\ raising = o.raising
         /\ ai_refinement = o.refine
    /\ rf_pc = "idle"
    /\ temp_cards = <<>>
    /\ refinement = NoRefinement
    /\ refined_raw = <<>>
    /\ chunk_cards = <<>>
    /\ chunk_error = FALSE
    /\ LMIdle
    /\ ChunkIdle
    /\ FilterIdle
    /\ ParseIdle
    /\ PoolIdle
    /\ UtilIdle

SpecFull == InitFull /\ [][Next]_vars

(***************************************************************************)
(* The validation gate on its own: a run of one chunk whose task has ended *)
(* and whose future holds a batch of candidate cards at the limits of the  *)
(* validator; the aggregating loop consumes it and the run returns.        *)
(***************************************************************************)
MaxCards == 2

BoundaryQuestions ==
    { <<>>,
      <<Blank>>,
      <<Blank>> \o Rep(1, min_len - 1) \o <<Blank>>,
      Rep(1, min_len),
      Rep(1, max_len),
      Rep(1, max_len + 1) }

BoundaryAnswers ==
    { <<>>,
      Rep(4, min_answer_len - 1),
      Rep(4, min_answer_len),
      Rep(4, max_len * 2),
      Rep(4, max_len * 2 + 1),
      Rep(27, min_len) }

BoundaryCards == {Card(q, a) : q \in BoundaryQuestions, a \in BoundaryAnswers}

CardBatches(n) == UNION {[1..k -> BoundaryCards] : k \in 0..n}

InitValidate ==
    /\ pc = "loop"
    /\ stop = FALSE
    /\ deterministic_mode = FALSE
    /\ concurrency = 1
    /\ probe = NoProbe
    /\ \E batch \in CardBatches(MaxCards) :
         /\ response = <<Returns(batch)>>
         /\ fut = <<Finished(batch)>>
    /\ task = <<"done">>
    /\ model_calls = <<1>>
    /\ finished_snapshot = {}
    /\ waiter = <<1>>
    /\ consumed = {}
    /\ all_qa_pairs = <<>>
    /\ seen_questions_global = {}
    /\ metrics = increment_processed_chunk(count_chunks(PipelineStats, 1))
    /\ failed_chunks_log = <<>>
    /\ rejected_cards_log = <<>>
    /\ partial_result_callback = FALSE
    /\ delivered = <<>>
    /\ raising = "none"
    /\ refine_calls = <<0>>
    /\ chunks = chunk_texts(1)
    /\ aborted_call = <<"none">>
    /\ LMIdle
    /\ FnIdle

NextValidate ==
    \/ \E i \in NextFuture : Consume(i)
    \/ LoopEnd
    \/ Return

SpecValidate == InitValidate /\ [][NextValidate]_vars

(***************************************************************************)
(* The aggregating loop over the futures of two chunks whose tasks have    *)
(* ended: their cards share one question text, valid with one answer and   *)
(* invalid with another; the futures are yielded in either order.          *)
(***************************************************************************)
AShort == Rep(4, min_answer_len - 1)

SharedQuestionCards ==
    {Card(Q1, A1), Card(Q1, A2), Card(Q1, AShort), Card(QShort, A1)}

SharedBatches(n) == UNION {[1..k -> SharedQuestionCards] : k \in 0..n}

InitShared ==
    /\ pc = "loop"
    /\ stop = FALSE
    /\ deterministic_mode = FALSE
    /\ concurrency \in 1..MaxWorkers
    /\ probe = NoProbe
    /\ \E first \in SharedBatches(MaxCards), second \in SharedBatches(MaxCards) :
         /\ response = <<Returns(first), Returns(second)>>
         /\ fut = <<Finished(first), Finished(second)>>
    /\ task = <<"done", "done">>
    /\ model_calls = <<1, 1>>
    /\ finished_snapshot = {}
    /\ waiter \in {<<1, 2>>, <<2, 1>>}
    /\ consumed = {}
    /\ all_qa_pairs = <<>>
    /\ seen_questions_global = {}
    /\ metrics =
         increment_processed_chunk(
             increment_processed_chunk(count_chunks(PipelineStats, 2)))
    /\ failed_chunks_log = <<>>
    /\ rejected_cards_log = <<>>
    /\ partial_result_callback = FALSE
    /\ delivered = <<>>
    /\ raising = "none"
    /\ refine_calls = <<0, 0>>
    /\ chunks = chunk_texts(2)
    /\ aborted_call = <<"none", "none">>
    /\ LMIdle
    /\ FnIdle

NextShared ==
    \/ \E i \in NextFuture : Consume(i)
    \/ LoopEnd
    \/ Return

SpecShared == InitShared /\ [][NextShared]_vars

(***************************************************************************)
(* call_lm_studio.                                                         *)
(*                                                                         *)
(* What the endpoint does is an input: each request either fails to open,  *)
(* answers a status other than 200, or opens a stream; a stream delivers   *)
(* lines, then ends, or fails while it is read.                            *)
(***************************************************************************)
\* exceptions urlopen raises: URLError (refused, unresolved), HTTPError (the
\* server answered an error status; a subclass of URLError), socket.timeout,
\* and any other exception
ConnectFailures == {"URLError", "HTTPError", "timeout", "Other"}

\* exceptions raised while the stream is read
StreamFailures == {"IncompleteRead", "timeout", "ConnectionError", "Other"}

\* the content fragments a line may carry (non-empty texts)
Fragments == {1, 2}

Line(kind, content) == [kind |-> kind, content |-> content]

\* a received line: a 'data: ' line with a content fragment, a 'data: ' line
\* with malformed JSON, a line without the prefix, a line that does not
\* decode, or 'data: [DONE]'
Lines ==
    {Line("content", f) : f \in Fragments} \cup
    {Line(k, 0) : k \in {"bad_json", "no_prefix", "undecodable", "done"}}

\* faulty variant: every exception is handled as a connection error
caught_as_network_Any(kind) == TRUE

\* the first except clause of call_lm_studio (line 175): URLError and its
\* subclasses, socket.timeout, IncompleteRead, ConnectionError
caught_as_network(kind) ==
    kind \in {"URLError", "HTTPError", "timeout", "IncompleteRead", "ConnectionError"}

\* lines 177-182: the exception kept in last_exception
err_msg(kind) ==
    [msg |-> IF kind \in {"URLError", "HTTPError"} THEN "Connection Failed"
             ELSE "Network error during AI call",
     cause |-> kind]

\* the exceptions of the second except clause, re-raised as they are
other_exception(kind) ==
    [msg |-> CASE kind = "stopped" -> "Processing stopped by user."
               [] kind = "status_not_200" -> "HTTP Error"
               [] OTHER -> "other",
     cause |-> kind]

RECURSIVE Pow2(_)
Pow2(n) == IF n = 0 THEN 1 ELSE 2 * Pow2(n - 1)

\* line 185
wait_time(k) == Pow2(k)

\* faulty variant: one attempt too many is followed by a retry
retry_follows_OffByOne(k) == k < retries

\* line 186: a failed attempt is followed by a wait and another attempt
retry_follows(k) == k < retries - 1

Raised(exception) == [kind |-> "error", error |-> exception]
Returned(text) == [kind |-> "text", text |-> text]

\* lines 175-195: an attempt ends with an exception of the given kind
LMFail(kind) ==
    /\ failures' = Append(failures, kind)
    /\ IF caught_as_network(kind)
       THEN /\ last_exception' = err_msg(kind)
            /\ IF retry_follows(attempt)
               THEN /\ sleeps' = Append(sleeps, wait_time(attempt))
                    /\ attempt' = attempt + 1
                    /\ lm_pc' = "attempt"
                    /\ UNCHANGED lm_result
               ELSE /\ lm_pc' = "raised"
                    /\ lm_result' = Raised(err_msg(kind))
                    /\ UNCHANGED <<sleeps, attempt>>
       ELSE /\ lm_pc' = "raised"
            /\ lm_result' = Raised(other_exception(kind))
            /\ UNCHANGED <<last_exception, sleeps, attempt>>

runRest ==
    <<pc, deterministic_mode, concurrency, probe, response, task, fut,
      model_calls, finished_snapshot, waiter, consumed, all_qa_pairs,
      seen_questions_global, metrics, failed_chunks_log, rejected_cards_log,
      partial_result_callback, delivered, raising, refine_calls, chunks, aborted_call, fnVars>>

\* faulty variant: the text of the failed attempt is kept
fresh_response_Kept(text) == text

\* line 140: full_response = "" at the top of every attempt
fresh_response(text) == <<>>

\* lines 139-144: the top of the attempt loop and the request
LMRequest ==
    /\ lm_pc = "attempt"
    /\ requests' = requests + 1
    /\ full_response' = fresh_response(full_response)
    /\ lines' = <<>>
    /\ \E outcome \in {"open", "status_not_200"} \cup ConnectFailures :
         IF outcome = "open"
         THEN /\ lm_pc' = "reading"
              /\ UNCHANGED <<attempt, last_exception, sleeps, failures, lm_result>>
         ELSE LMFail(outcome)
    /\ UNCHANGED <<probe_calls, stop, runRest>>

\* line 147: the cancellation probe, consulted on a received line
probe_in_stream == stop

\* faulty variant: a fragment is put in front of the text
accumulate_Prepend(text, l) ==
    IF l.kind = "content" THEN <<l.content>> \o text ELSE text

\* lines 150-171: a line with a content fragment extends the text; a line
\* that does not decode, has no 'data: ' prefix or carries malformed JSON is
\* skipped
accumulate(text, l) ==
    IF l.kind = "content" THEN Append(text, l.content) ELSE text

\* lines 146-171: one line of the stream is received
LMReadLine ==
    /\ lm_pc = "reading"
    /\ Len(lines) < MaxLines
    /\ \E l \in Lines :
         /\ lines' = Append(lines, l)
         /\ probe_calls' = probe_calls + 1
         /\ IF probe_in_stream
            THEN /\ LMFail("stopped")
                 /\ UNCHANGED full_response
            ELSE IF l.kind = "done"
            THEN /\ lm_pc' = "returned"
                 /\ lm_result' = Returned(full_response)
                 /\ UNCHANGED <<full_response, attempt, last_exception, sleeps,
                                failures>>
            ELSE /\ full_response' = accumulate(full_response, l)
                 /\ UNCHANGED <<lm_pc, lm_result, attempt, last_exception,
                                sleeps, failures>>
    /\ UNCHANGED <<requests, stop, runRest>>

\* lines 146, 173: the connection closes, the accumulated text is returned
LMStreamEnd ==
    /\ lm_pc = "reading"
    /\ lm_pc' = "returned"
    /\ lm_result' = Returned(full_response)
    /\ UNCHANGED <<attempt, requests, full_response, lines, probe_calls,
                   last_exception, sleeps, failures, stop, runRest>>

\* line 146: reading the stream raises
LMStreamFail ==
    /\ lm_pc = "reading"
    /\ \E kind \in StreamFailures : LMFail(kind)
    /\ UNCHANGED <<requests, full_response, lines, probe_calls, stop, runRest>>

\* the caller requests cancellation while the call is in progress
LMCancel ==
    /\ lm_pc \in {"attempt", "reading"}
    /\ ~stop
    /\ stop' = TRUE
    /\ UNCHANGED <<lmVars, runRest>>

\* call_lm_studio has just been called; no run of generate_qa_pairs around it
InitLM ==
    /\ LMStart("attempt")
    /\ pc = "idle"
    /\ stop = FALSE
    /\ deterministic_mode = FALSE
    /\ concurrency = 1
    /\ probe = NoProbe
    /\ response = <<>>
    /\ task = <<>>
    /\ fut = <<>>
    /\ model_calls = <<>>
    /\ finished_snapshot = {}
    /\ waiter = <<>>
    /\ consumed = {}
    /\ all_qa_pairs = <<>>
    /\ seen_questions_global = {}
    /\ metrics = PipelineStats
    /\ failed_chunks_log = <<>>
    /\ rejected_cards_log = <<>>
    /\ partial_result_callback = FALSE
    /\ delivered = <<>>
    /\ raising = "none"
    /\ refine_calls = <<>>
    /\ chunks = <<>>
    /\ aborted_call = <<>>
    /\ FnIdle

NextLM ==
    \/ LMRequest
    \/ LMReadLine
    \/ LMStreamEnd
    \/ LMStreamFail
    \/ LMCancel

SpecLM == InitLM /\ [][NextLM]_vars

(***************************************************************************)
(* smart_chunk_text.                                                       *)
(*                                                                         *)
(* A text is a sequence of characters: a letter, a full stop, a space      *)
(* (Blank), a line break.                                                  *)
(***************************************************************************)
Letter == 1
Period == 53
Newline == 54

ChunkAlphabet == {Letter, Period, Blank, Newline}

\* the class \s of the sentence pattern
isspace(c) == c \in {Blank, Newline}

\* the class [.!?] of the sentence pattern
ends_sentence(c) == c = Period

\* the default of the argument min_chars
default_min_chars == 100

RECURSIVE splitlines_from(_, _)
splitlines_from(t, line) ==
    IF t = <<>> THEN (IF line = <<>> THEN <<>> ELSE <<line>>)
    ELSE IF Head(t) = Newline
         THEN <<Append(line, Newline)>> \o splitlines_from(Tail(t), <<>>)
         ELSE splitlines_from(Tail(t), Append(line, Head(t)))

\* text.splitlines(keepends=True)
splitlines(t) == splitlines_from(t, <<>>)

RECURSIVE skip_spaces(_)
skip_spaces(t) ==
    IF t # <<>> /\ isspace(Head(t)) THEN skip_spaces(Tail(t)) ELSE t

RECURSIVE split_sentences_from(_, _)
split_sentences_from(t, piece) ==
    IF t = <<>> THEN <<piece>>
    ELSE IF piece # <<>> /\ ends_sentence(piece[Len(piece)]) /\ isspace(Head(t))
         THEN <<piece>> \o split_sentences_from(skip_spaces(t), <<>>)
         ELSE split_sentences_from(Tail(t), Append(piece, Head(t)))

\* re.split(r'(?<=[.!?])\s+', para): a run of whitespace that follows a
\* full stop separates two pieces and belongs to neither
split_sentences(para) == split_sentences_from(para, <<>>)

\* chunks: the chunks closed so far; current: the joined pieces of
\* current_chunk (current_length is its length)
ChunkState(closed, current) == [chunks |-> closed, current |-> current]

\* "if current_chunk: chunks.append(''.join(current_chunk)); ..."
flush(st) ==
    IF st.current # <<>>
    THEN ChunkState(Append(st.chunks, st.current), <<>>)
    ELSE st

Min(a, b) == IF a <= b THEN a ELSE b

\* faulty variant: a sentence over the budget is kept whole
hard_split_Whole(sent, max_chars) == <<sent>>

\* lines 248-251: while sent: part = sent[:max_chars] ...
RECURSIVE hard_split(_, _)
hard_split(sent, max_chars) ==
    IF sent = <<>> THEN <<>>
    ELSE <<SubSeq(sent, 1, Min(max_chars, Len(sent)))>> \o
         hard_split(SubSeq(sent, max_chars + 1, Len(sent)), max_chars)

\* lines 233-255: the sentences of a paragraph over the budget
RECURSIVE add_sentences(_, _, _, _)
add_sentences(st, sentences, i, max_chars) ==
    IF i > Len(sentences) THEN st
    ELSE LET sent == IF i < Len(sentences)
                     THEN Append(sentences[i], Blank)
                     ELSE sentences[i]
             flushed == flush(st)
         IN  IF sent = <<>>
             THEN add_sentences(st, sentences, i + 1, max_chars)
             ELSE IF Len(st.current) + Len(sent) > max_chars
             THEN IF Len(sent) > max_chars
                  THEN add_sentences(
                           ChunkState(flushed.chunks \o hard_split(sent, max_chars),
                                      <<>>),
                           sentences, i + 1, max_chars)
                  ELSE add_sentences(ChunkState(flushed.chunks, sent),
                                     sentences, i + 1, max_chars)
             ELSE add_sentences(ChunkState(st.chunks, st.current \o sent),
                                sentences, i + 1, max_chars)

\* lines 210-255: one paragraph
add_paragraph(st, para, max_chars) ==
    IF Len(st.current) + Len(para) <= max_chars
    THEN ChunkState(st.chunks, st.current \o para)
    ELSE IF Len(para) <= max_chars
         THEN ChunkState(flush(st).chunks, para)
         ELSE add_sentences(flush(st), split_sentences(para), 1, max_chars)

RECURSIVE add_paragraphs(_, _, _)
add_paragraphs(st, paragraphs, max_chars) ==
    IF paragraphs = <<>> THEN st
    ELSE add_paragraphs(add_paragraph(st, Head(paragraphs), max_chars),
                        Tail(paragraphs), max_chars)

\* lines 264-274: a chunk under min_chars takes its successor while the two
\* fit the budget
RECURSIVE merge_chunks(_, _, _, _, _)
merge_chunks(closed, i, current_merge, max_chars, min_chars) ==
    IF i > Len(closed) THEN <<current_merge>>
    ELSE IF /\ Len(current_merge) < min_chars
            /\ Len(current_merge) + Len(closed[i]) <= max_chars
         THEN merge_chunks(closed, i + 1, current_merge \o closed[i],
                           max_chars, min_chars)
         ELSE <<current_merge>> \o
              merge_chunks(closed, i + 1, closed[i], max_chars, min_chars)

smart_chunk_text(t, max_chars, min_chars) ==
    LET closed == flush(add_paragraphs(ChunkState(<<>>, <<>>), splitlines(t),
                                       max_chars)).chunks
    IN  IF closed = <<>> THEN <<>>
        ELSE merge_chunks(closed, 2, closed[1], max_chars, min_chars)

\* the concatenation of a sequence of texts
RECURSIVE Flatten(_)
Flatten(ss) == IF ss = <<>> THEN <<>> ELSE Head(ss) \o Flatten(Tail(ss))

\* the texts of at most n characters
Texts(n) == UNION {[1..k -> ChunkAlphabet] : k \in 0..n}

\* generate_qa_pairs is not running
RunIdle ==
    /\ pc = "idle"
    /\ stop = FALSE
    /\ deterministic_mode = FALSE
    /\ concurrency = 1
    /\ probe = NoProbe
    /\ response = <<>>
    /\ task = <<>>
    /\ fut = <<>>
    /\ model_calls = <<>>
    /\ finished_snapshot = {}
    /\ waiter = <<>>
    /\ consumed = {}
    /\ all_qa_pairs = <<>>
    /\ seen_questions_global = {}
    /\ metrics = PipelineStats
    /\ failed_chunks_log = <<>>
    /\ rejected_cards_log = <<>>
    /\ partial_result_callback = FALSE
    /\ delivered = <<>>
    /\ raising = "none"
    /\ refine_calls = <<>>
    /\ chunks = <<>>
    /\ aborted_call = <<>>

\* smart_chunk_text has just been called
InitChunk ==
    /\ ch_pc = "called"
    /\ ch_text \in Texts(MaxText)
    /\ ch_max_chars \in 1..MaxBudget
    /\ ch_min_chars \in {0, 2, default_min_chars}
    /\ ch_chunks = <<>>
    /\ RunIdle
    /\ LMIdle
    /\ FilterIdle
    /\ ParseIdle
    /\ RefineIdle
    /\ PoolIdle
    /\ UtilIdle

ChunkCall ==
    /\ ch_pc = "called"
    /\ ch_chunks' = smart_chunk_text(ch_text, ch_max_chars, ch_min_chars)
    /\ ch_pc' = "returned"
    /\ UNCHANGED <<ch_text, ch_max_chars, ch_min_chars, runVars, lmVars,
                   filterVars, parseVars, refineVars,
                   poolVars, utilVars>>

NextChunk == ChunkCall

SpecChunk == InitChunk /\ [][NextChunk]_vars

(***************************************************************************)
(* filter_and_process_cards.                                               *)
(*                                                                         *)
(* Letters are 1..26 (a..z) and 27..52 (A..Z).  A value of a record is     *)
(* absent, a string, a list of strings or null; its parts are the string   *)
(* itself or the elements of the list.                                     *)
(***************************************************************************)
Comma == 55

\* the Turkish dotless i
DotlessI == 56

\* the text "Default"
Default == <<30, 5, 6, 1, 21, 12, 20>>

\* the deck of a card whose record has "deck": null
NoneDeck == <<99>>

\* sub in s
contains(s, sub) ==
    \E i \in 0..(Len(s) - Len(sub)) : SubSeq(s, i + 1, i + Len(sub)) = sub

\* s.startswith(prefix)
startswith(s, prefix) ==
    Len(prefix) <= Len(s) /\ SubSeq(s, 1, Len(prefix)) = prefix

RECURSIVE split_from(_, _, _)
split_from(s, sep, piece) ==
    IF s = <<>> THEN <<piece>>
    ELSE IF Head(s) = sep
         THEN <<piece>> \o split_from(Tail(s), sep, <<>>)
         ELSE split_from(Tail(s), sep, Append(piece, Head(s)))

\* s.split(sep)
split(s, sep) == split_from(s, sep, <<>>)

RECURSIVE split_words_from(_, _)
split_words_from(s, piece) ==
    LET word == IF piece = <<>> THEN <<>> ELSE <<piece>>
    IN  IF s = <<>> THEN word
        ELSE IF Head(s) = Blank
             THEN word \o split_words_from(Tail(s), <<>>)
             ELSE split_words_from(Tail(s), Append(piece, Head(s)))

\* s.split()
split_words(s) == split_words_from(s, <<>>)

\* " ".join(parts)
RECURSIVE join_space(_)
join_space(parts) ==
    IF parts = <<>> THEN <<>>
    ELSE IF Len(parts) = 1 THEN parts[1]
    ELSE parts[1] \o <<Blank>> \o join_space(Tail(parts))

Value(kind, parts) == [kind |-> kind, parts |-> parts]
Absent == Value("absent", <<>>)
Null == Value("null", <<>>)
Str(t) == Value("str", <<t>>)
List(parts) == Value("list", parts)

\* the truth value of a record's value
truthy(v) ==
    CASE v.kind = "str" -> v.parts[1] # <<>>
      [] v.kind = "list" -> v.parts # <<>>
      [] OTHER -> FALSE

\* faulty variant: the capitalised key is not consulted
or_else_FirstOnly(a, b) == a

\* a or b
or_else(a, b) == IF truthy(a) THEN a ELSE b

\* lines 487-488
text_of(v) ==
    IF v.kind = "list" THEN strip(join_space(v.parts)) ELSE strip(v.parts[1])

\* lines 454-459, 467-472: the comma-separated parts of a deck name and the
\* words of more than 3 letters of each
parts_data(d_name) ==
    LET pieces == split(d_name, Comma)
        cleaned == SelectSeq([k \in DOMAIN pieces |-> lower(strip(pieces[k]))],
                             LAMBDA part : part # <<>>)
    IN  [k \in DOMAIN cleaned |->
            [text |-> cleaned[k],
             words |-> SelectSeq(split_words(cleaned[k]),
                                 LAMBDA w : Len(w) > 3)]]

\* lines 447-449, doubled
RECURSIVE score_words(_, _, _)
score_words(words, q_txt, a_txt) ==
    IF words = <<>> THEN 0
    ELSE (IF contains(q_txt, Head(words)) THEN 3 * Len(Head(words))
          ELSE IF contains(a_txt, Head(words)) THEN Len(Head(words))
          ELSE 0)
         + score_words(Tail(words), q_txt, a_txt)

\* lines 436-450.  The scores are twice those of the code, which has halves.
RECURSIVE score_deck_parts(_, _, _)
score_deck_parts(parts, q_txt, a_txt) ==
    IF parts = <<>> THEN 0
    ELSE LET part == Head(parts).text
         IN  (IF contains(q_txt, part) THEN 6 * Len(part)
              ELSE IF contains(a_txt, part) THEN 2 * Len(part)
              ELSE score_words(Head(parts).words, q_txt, a_txt))
             + score_deck_parts(Tail(parts), q_txt, a_txt)

\* lines 453-460
score_deck_raw(d_name, q_txt, a_txt) ==
    score_deck_parts(parts_data(d_name), q_txt, a_txt)

\* the texts "yes", "no", "evet", "hayır"
yes == <<25, 5, 19>>
no == <<14, 15>>
evet == <<5, 22, 5, 20>>
hayir == <<8, 1, 25, DotlessI, 18>>

yes_no_tokens == {evet, hayir, yes, no}

\* lines 496-500
is_yes_no(a_text) ==
    LET a_lower == strip(lower(a_text))
    IN  \/ a_lower \in yes_no_tokens
        \/ a_lower \in {Append(t, Period) : t \in yes_no_tokens}
        \/ \E t \in yes_no_tokens : startswith(a_lower, Append(t, Comma))

\* a record of raw_data_list: a dict with its values, or something else
Item(q, capQ, a, capA, deck) ==
    [isdict |-> TRUE, question |-> q, Question |-> capQ, answer |-> a,
     Answer |-> capA, deck |-> deck, quote |-> <<>>]

NonDict == [Item(Absent, Absent, Absent, Absent, Absent) EXCEPT !.isdict = FALSE]

\* the card of line 543
FilteredCard(q, a, deck, quote) ==
    [question |-> q, answer |-> a, deck |-> deck, quote |-> quote]

Entry(card, score) == [card |-> card, score |-> score]

\* what an item of the batch does to the loop: it is skipped, it raises, or
\* it appends an entry
ItemResult(kind, entry) == [kind |-> kind, entry |-> entry]
NoEntry == Entry(FilteredCard(<<>>, <<>>, <<>>, <<>>), 0)

\* item.get('deck', 'Default')
deck_of(item) ==
    CASE item.deck.kind = "absent" -> Default
      [] item.deck.kind = "null" -> NoneDeck
      [] OTHER -> item.deck.parts[1]

\* faulty variant: the last name that passes the test is taken
first_match_Last(names, hits) ==
    IF hits = {} THEN <<>>
    ELSE names[CHOOSE i \in hits : \A j \in hits : i >= j]

\* next((d for d in deck_names if ...), None), hits being the indexes of the
\* names that pass the test; <<>> when there is none
first_match(names, hits) ==
    IF hits = {} THEN <<>>
    ELSE names[CHOOSE i \in hits : \A j \in hits : i <= j]

\* line 510: deck.lower() of a deck that is not a string raises
deck_raises(deck, names) ==
    /\ names # <<>>
    /\ deck \notin {names[k] : k \in DOMAIN names}
    /\ deck = NoneDeck

\* faulty variant: a deck outside the list is kept when nothing matches
constrain_deck_NoFallback(deck, names) ==
    IF names = <<>> \/ deck \in {names[k] : k \in DOMAIN names} THEN deck
    ELSE LET ci == first_match(names, {i \in DOMAIN names :
                                          lower(names[i]) = lower(deck)})
             sub == first_match(names, {i \in DOMAIN names :
                                           contains(deck, names[i])})
         IN  IF ci # <<>> THEN ci
             ELSE IF sub # <<>> THEN sub
             ELSE deck

\* lines 508-518
constrain_deck(deck, names) ==
    IF names = <<>> \/ deck \in {names[k] : k \in DOMAIN names} THEN deck
    ELSE LET ci == first_match(names, {i \in DOMAIN names :
                                          lower(names[i]) = lower(deck)})
             sub == first_match(names, {i \in DOMAIN names :
                                           contains(deck, names[i])})
         IN  IF ci # <<>> THEN ci
             ELSE IF sub # <<>> THEN sub
             ELSE IF Default \in {names[k] : k \in DOMAIN names} THEN Default
             ELSE names[1]

\* lines 529-536: the score of each deck of the list
deck_scores(names, q_txt, a_txt) ==
    [i \in DOMAIN names |->
        score_deck_parts(parts_data(names[i]), q_txt, a_txt)]

\* the first index with the highest score
first_highest(sc) ==
    CHOOSE i \in DOMAIN sc :
        \A j \in DOMAIN sc : sc[i] > sc[j] \/ (sc[i] = sc[j] /\ i <= j)

best_at(names, sc, best) == [name |-> names[best], score |-> sc[best]]

best_of(names, sc) == best_at(names, sc, first_highest(sc))

\* lines 529-536: the first deck with the highest score
best_match(names, q_txt, a_txt) ==
    best_of(names, deck_scores(names, q_txt, a_txt))

\* faulty variant: an equal score is enough to switch
switch_deck_NotStrict(card, best, current_score) ==
    IF best.name # <<>> /\ best.score > 0 /\ best.score >= current_score
    THEN Entry([card EXCEPT !.deck = best.name], best.score)
    ELSE Entry(card, current_score)

\* lines 538-541
switch_deck(card, best, current_score) ==
    IF best.name # <<>> /\ best.score > 0 /\ best.score > current_score
    THEN Entry([card EXCEPT !.deck = best.name], best.score)
    ELSE Entry(card, current_score)

\* lines 521-541
smart_correct(card, names) ==
    LET q_lower == lower(card.question)
        a_lower == lower(card.answer)
    IN  switch_deck(card, best_match(names, q_lower, a_lower),
                    score_deck_raw(card.deck, q_lower, a_lower))

\* lines 477-543: one item of raw_data_list
process_item(item, names, smart, yesno) ==
    LET q_val == or_else(item.question, item.Question)
        a_val == or_else(item.answer, item.Answer)
        q_text == text_of(q_val)
        a_text == text_of(a_val)
        deck == deck_of(item)
        card == FilteredCard(q_text, a_text, constrain_deck(deck, names),
                             item.quote)
    IN  IF ~item.isdict THEN ItemResult("skip", NoEntry)
        ELSE IF ~truthy(q_val) \/ ~truthy(a_val) THEN ItemResult("skip", NoEntry)
        ELSE IF q_text = <<>> \/ a_text = <<>> THEN ItemResult("skip", NoEntry)
        ELSE IF yesno /\ is_yes_no(a_text) THEN ItemResult("skip", NoEntry)
        ELSE IF deck_raises(deck, names) THEN ItemResult("raise", NoEntry)
        ELSE IF smart /\ names # <<>>
             THEN ItemResult("entry", smart_correct(card, names))
             ELSE ItemResult("entry", Entry(card, 0))

\* lines 475-543: the loop over raw_data_list; after_item is what the loop
\* does with the result r of its first item
RECURSIVE process_items(_, _, _, _, _)
RECURSIVE after_item(_, _, _, _, _, _)
after_item(r, rest, entries, names, smart, yesno) ==
    IF r.kind = "raise" THEN [raises |-> TRUE, entries |-> <<>>]
    ELSE process_items(rest,
                       IF r.kind = "entry"
                       THEN Append(entries, r.entry) ELSE entries,
                       names, smart, yesno)

process_items(items, entries, names, smart, yesno) ==
    IF items = <<>> THEN [raises |-> FALSE, entries |-> entries]
    ELSE after_item(process_item(Head(items), names, smart, yesno),
                    Tail(items), entries, names, smart, yesno)

\* Counter(decks).most_common(1)[0][0]: the most frequent deck, the one met
\* first among equals
most_common(decks) ==
    LET count(i) == Cardinality({j \in DOMAIN decks : decks[j] = decks[i]})
        firsts == {i \in DOMAIN decks : \A j \in 1..(i - 1) : decks[j] # decks[i]}
    IN  decks[CHOOSE i \in firsts :
                  \A j \in firsts :
                      count(i) > count(j) \/ (count(i) = count(j) /\ i <= j)]

\* faulty variant: every entry votes
voters_of_All(entries, high_conf) == entries

\* lines 548-551: the entries that vote
voters_of(entries, high_conf) == IF high_conf # <<>> THEN high_conf ELSE entries

\* lines 553-555
dominant_of(voters) ==
    most_common([k \in DOMAIN voters |-> voters[k].card.deck])

\* lines 557-562
assign_dominant(entries, dominant_deck) ==
    IF dominant_deck # <<>> /\ dominant_deck # NoneDeck
    THEN [k \in DOMAIN entries |->
             IF entries[k].score = 0
             THEN [entries[k] EXCEPT !.card.deck = dominant_deck]
             ELSE entries[k]]
    ELSE entries

\* lines 547-562
majority_vote(entries) ==
    assign_dominant(entries,
                    dominant_of(voters_of(entries,
                                          SelectSeq(entries,
                                                    LAMBDA en : en.score > 0))))

cards_of(entries) == [k \in DOMAIN entries |-> entries[k].card]

\* lines 545-564: the cards of the entries of the loop, after the vote
voted_cards(r, smart) ==
    [raises |-> r.raises,
     cards |-> cards_of(IF smart /\ r.entries # <<>>
                        THEN majority_vote(r.entries) ELSE r.entries)]

filter_and_process_cards(raw, names, smart, yesno) ==
    voted_cards(process_items(raw, <<>>, names, smart, yesno), smart)

\* the texts "Bio", "bio", "BioX", "Cell", "zz", "cell", "qq", "x"
Bio == <<28, 9, 15>>
BioLower == <<2, 9, 15>>
BioX == <<28, 9, 15, 50>>
Cell == <<29, 5, 12, 12>>
OtherDeck == <<26, 26>>
QCell == <<3, 5, 12, 12>>
QPlain == <<17, 17>>
APlain == <<24>>

\* the allowed category lists
DeckLists == {<<>>, <<Bio, Cell>>, <<Bio, Default>>}

\* the deck values of a record
DeckValues == {Absent, Null, Str(Bio), Str(BioLower), Str(BioX), Str(OtherDeck)}

\* records that differ in their deck
DeckItems ==
    {Item(Str(q), Absent, Str(APlain), Absent, d) :
        q \in {QCell, QPlain}, d \in DeckValues}

\* records that differ in how they carry the question and the answer:
\* capitalised keys, an empty lower-case key beside a capitalised one, lists,
\* padded values, and records without a usable question or answer
FieldItems ==
    {Item(Absent, Str(QPlain), Absent, Str(APlain), Absent),
     Item(Str(<<>>), Str(QCell), Str(APlain), Absent, Absent),
     Item(List(<<QPlain, QCell>>), Absent, Str(<<Blank, 24, Blank>>), Absent, Absent),
     Item(Str(<<Blank>>), Absent, Str(APlain), Absent, Absent),
     Item(Str(QPlain), Absent, Absent, Absent, Absent),
     Item(List(<<<<>>>>), Absent, Str(APlain), Absent, Absent),
     Item(Str(QPlain), Absent, List(<<>>), Absent, Absent),
     NonDict}

\* the answers "yes", "Yes.", "NO", "no,x", "evet", "Hayır", "HAYIR",
\* "no. x", "yes x", "not", " no "
YesNoAnswers ==
    {yes, <<51, 5, 19, Period>>, <<40, 41>>, <<14, 15, Comma, 24>>, evet,
     <<34, 1, 25, DotlessI, 18>>, <<34, 27, 51, 35, 44>>,
     <<14, 15, Period, Blank, 24>>, <<25, 5, 19, Blank, 24>>, <<14, 15, 20>>,
     <<Blank, 14, 15, Blank>>}

\* records that differ in their answer
AnswerItems ==
    {Item(Str(QPlain), Absent, Str(a), Absent, Absent) : a \in YesNoAnswers}

Items == DeckItems \cup FieldItems \cup AnswerItems

\* the batches of at most n records
Batches(n) == UNION {[1..k -> Items] : k \in 0..n}

\* filter_and_process_cards has just been called
InitFilter ==
    /\ flt_pc = "called"
    /\ raw_data_list \in Batches(MaxBatch)
    /\ deck_names \in DeckLists
    /\ smart_deck_match \in BOOLEAN
    /\ filter_yes_no \in BOOLEAN
    /\ flt_result = [raises |-> FALSE, cards |-> <<>>]
    /\ RunIdle
    /\ LMIdle
    /\ ChunkIdle
    /\ ParseIdle
    /\ RefineIdle
    /\ PoolIdle
    /\ UtilIdle

FilterCall ==
    /\ flt_pc = "called"
    /\ flt_result' = filter_and_process_cards(raw_data_list, deck_names,
                                              smart_deck_match, filter_yes_no)
    /\ flt_pc' = "returned"
    /\ UNCHANGED <<raw_data_list, deck_names, smart_deck_match, filter_yes_no,
                   runVars, lmVars, chunkVars, parseVars, refineVars,
                   poolVars, utilVars>>

NextFilter == FilterCall

SpecFilter == InitFilter /\ [][NextFilter]_vars

(***************************************************************************)
(* robust_parse_objects.                                                   *)
(*                                                                         *)
(* The text is a sequence of tokens, each one position wide: the           *)
(* punctuation of JSON, the strings "question", "Question", "answer",      *)
(* "cards" and another string, the Markdown fence, letters.                *)
(***************************************************************************)
LBrace == 60
RBrace == 61
LBracket == 62
RBracket == 63
Colon == 64
KeyQuestion == 65
KeyAnswer == 66
KeyOther == 67
StrValue == 68
Fence == 69
KeyQuestionCap == 70

StringTokens == {KeyQuestion, KeyAnswer, KeyOther, StrValue, KeyQuestionCap}

\* a decoded JSON value: a string, an object (its keys in insertion order and
\* their values) or an array (its elements)
Node(kind, tok, keys, vals) ==
    [kind |-> kind, tok |-> tok, keys |-> keys, vals |-> vals]

NoNode == Node("none", 0, <<>>, <<>>)

\* what raw_decode does: it returns a value and the position after it, or
\* raises JSONDecodeError
Decoded(node, next) == [ok |-> TRUE, next |-> next, val |-> node]
DecodeError == [ok |-> FALSE, next |-> 0, val |-> NoNode]

\* the token at position i (from 1), -1 past the end
token_at(t, i) == IF i \in DOMAIN t THEN t[i] ELSE 0 - 1

\* d[k] = v on a dict: a key met again keeps its place and takes the new value
dict_set(keys, vals, k, v) ==
    IF \E i \in DOMAIN keys : keys[i] = k
    THEN [keys |-> keys,
          vals |-> [i \in DOMAIN vals |-> IF keys[i] = k THEN v ELSE vals[i]]]
    ELSE [keys |-> Append(keys, k), vals |-> Append(vals, v)]

RECURSIVE parse_value(_, _)
RECURSIVE parse_pairs(_, _, _, _)
RECURSIVE parse_elems(_, _, _)

\* the JSON value that begins at position i
parse_value(t, i) ==
    CASE token_at(t, i) \in StringTokens ->
             Decoded(Node("str", t[i], <<>>, <<>>), i + 1)
      [] token_at(t, i) = LBrace ->
             IF token_at(t, i + 1) = RBrace
             THEN Decoded(Node("obj", 0, <<>>, <<>>), i + 2)
             ELSE parse_pairs(t, i + 1, <<>>, <<>>)
      [] token_at(t, i) = LBracket ->
             IF token_at(t, i + 1) = RBracket
             THEN Decoded(Node("arr", 0, <<>>, <<>>), i + 2)
             ELSE parse_elems(t, i + 1, <<>>)
      [] OTHER -> DecodeError

\* the members of an object from position j on
parse_pairs(t, j, keys, vals) ==
    IF token_at(t, j) \notin StringTokens \/ token_at(t, j + 1) # Colon
    THEN DecodeError
    ELSE LET r == parse_value(t, j + 2)
             d == dict_set(keys, vals, t[j], r.val)
         IN  IF ~r.ok THEN DecodeError
             ELSE CASE token_at(t, r.next) = Comma ->
                           parse_pairs(t, r.next + 1, d.keys, d.vals)
                    [] token_at(t, r.next) = RBrace ->
                           Decoded(Node("obj", 0, d.keys, d.vals), r.next + 1)
                    [] OTHER -> DecodeError

\* the elements of an array from position j on
parse_elems(t, j, vals) ==
    LET r == parse_value(t, j)
    IN  IF ~r.ok THEN DecodeError
        ELSE CASE token_at(t, r.next) = Comma ->
                      parse_elems(t, r.next + 1, Append(vals, r.val))
               [] token_at(t, r.next) = RBracket ->
                      Decoded(Node("arr", 0, <<>>, Append(vals, r.val)),
                              r.next + 1)
               [] OTHER -> DecodeError

\* decoder.raw_decode(text, idx=start_idx), positions counted from 0
raw_decode(t, start_idx) ==
    LET r == parse_value(t, start_idx + 1)
    IN  IF r.ok THEN Decoded(r.val, r.next - 1) ELSE DecodeError

\* text.find(tok, from_idx), positions counted from 0; -1 when there is none
find(t, tok, from_idx) ==
    LET I == {i \in 0..(Len(t) - 1) : i >= from_idx /\ t[i + 1] = tok}
    IN  IF I = {} THEN 0 - 1 ELSE CHOOSE i \in I : \A j \in I : i <= j

\* k.lower() of a key
key_lower(k) == IF k = KeyQuestionCap THEN KeyQuestion ELSE k

\* faulty variant: every dict counts as a card
is_card_AnyDict(node) == TRUE

\* lines 311-312
is_card(node) ==
    LET keys_lower == {key_lower(node.keys[i]) : i \in DOMAIN node.keys}
    IN  KeyQuestion \in keys_lower /\ KeyAnswer \in keys_lower

Reverse(seq) == [i \in 1..Len(seq) |-> seq[Len(seq) + 1 - i]]

\* lines 306-319: the loop over the stack, its top at the end
RECURSIVE extract_from(_, _)
extract_from(stack, extracted) ==
    IF stack = <<>> THEN extracted
    ELSE LET curr == stack[Len(stack)]
             rest == SubSeq(stack, 1, Len(stack) - 1)
         IN  IF curr.kind = "obj"
             THEN IF is_card(curr)
                  THEN extract_from(rest, Append(extracted, curr))
                  ELSE extract_from(rest \o Reverse(curr.vals), extracted)
             ELSE IF curr.kind = "arr"
             THEN extract_from(rest \o Reverse(curr.vals), extracted)
             ELSE extract_from(rest, extracted)

extract_cards(obj) == extract_from(<<obj>>, <<>>)

RECURSIVE drop_letters(_)
drop_letters(t) ==
    IF t # <<>> /\ Head(t) \in 1..52 THEN drop_letters(Tail(t)) ELSE t

RECURSIVE drop_trailing_spaces(_)
drop_trailing_spaces(t) ==
    IF t # <<>> /\ isspace(t[Len(t)])
    THEN drop_trailing_spaces(SubSeq(t, 1, Len(t) - 1))
    ELSE t

\* line 297: the closing fence, the line break before it and the whitespace
\* after it
remove_last_fence(t) ==
    LET body == drop_trailing_spaces(t)
        before == SubSeq(body, 1, Len(body) - 1)
    IN  IF body # <<>> /\ body[Len(body)] = Fence
        THEN IF before # <<>> /\ before[Len(before)] = Newline
             THEN SubSeq(before, 1, Len(before) - 1)
             ELSE before
        ELSE t

\* lines 291-297
strip_fences(t) ==
    LET stripped == strip(t)
    IN  IF stripped # <<>> /\ Head(stripped) = Fence
        THEN remove_last_fence(skip_spaces(drop_letters(Tail(stripped))))
        ELSE stripped

\* {"question": s, "answer": s}
CardText == <<LBrace, KeyQuestion, Colon, StrValue, Comma, KeyAnswer, Colon,
              StrValue, RBrace>>

\* {"question": s}: a dict that is neither a card nor a wrapper of one
QuestionOnlyText == <<LBrace, KeyQuestion, Colon, StrValue, RBrace>>

\* {"cards": [card, {"question": s, "cards": card}]}: a wrapper whose list
\* holds a card and a second wrapper, which has a question but no answer
DeepWrapperText ==
    <<LBrace, KeyOther, Colon, LBracket>> \o CardText \o
    <<Comma, LBrace, KeyQuestion, Colon, StrValue, Comma, KeyOther, Colon>> \o
    CardText \o <<RBrace, RBracket, RBrace>>

\* the pieces a model response is made of: whole objects, the two ends of a
\* wrapper, the beginning of a card with a nested value, stray braces, a
\* letter, a fence
Pieces ==
    {CardText, QuestionOnlyText, DeepWrapperText,
     <<LBrace, KeyOther, Colon, LBracket>>, <<RBracket, RBrace>>,
     <<LBrace, KeyQuestionCap, Colon, StrValue, Comma, KeyAnswer, Colon>>,
     <<LBrace>>, <<RBrace>>, <<Letter>>, <<Fence>>}

\* the texts made of at most n pieces
ParseTexts(n) ==
    {Flatten(ps) : ps \in UNION {[1..k -> Pieces] : k \in 0..n}}

\* robust_parse_objects has just been called
InitParse ==
    /\ prs_pc = "called"
    /\ prs_text \in ParseTexts(MaxPieces)
    /\ pos = 0
    /\ results = <<>>
    /\ decoded = <<>>
    /\ iterations = 0
    /\ RunIdle
    /\ LMIdle
    /\ ChunkIdle
    /\ FilterIdle
    /\ RefineIdle
    /\ PoolIdle
    /\ UtilIdle

\* lines 291-301
ParseCall ==
    /\ prs_pc = "called"
    /\ prs_text' = strip_fences(prs_text)
    /\ pos' = 0
    /\ prs_pc' = "scan"
    /\ UNCHANGED <<results, decoded, iterations, runVars, lmVars, chunkVars,
                   filterVars, refineVars,
                   poolVars, utilVars>>

\* faulty variant: the search resumes at the failed position
next_after_failure_Same(t, start_idx) == find(t, LBrace, start_idx)

\* line 339
next_after_failure(t, start_idx) == find(t, LBrace, start_idx + 1)

\* lines 322-341: one iteration of the scan loop
ScanStep ==
    /\ prs_pc = "scan"
    /\ pos < Len(prs_text)
    /\ iterations' = iterations + 1
    /\ LET start_idx == find(prs_text, LBrace, pos)
           r == raw_decode(prs_text, start_idx)
           next_pos == next_after_failure(prs_text, start_idx)
       IN  IF start_idx = 0 - 1
           THEN /\ prs_pc' = "returned"
                /\ UNCHANGED <<pos, results, decoded>>
           ELSE IF r.ok
           THEN /\ results' = results \o extract_cards(r.val)
                /\ decoded' = Append(decoded, r.val)
                /\ pos' = r.next
                /\ UNCHANGED prs_pc
           ELSE /\ pos' = next_pos
                /\ prs_pc' = IF next_pos = 0 - 1 THEN "returned" ELSE "scan"
                /\ UNCHANGED <<results, decoded>>
    /\ UNCHANGED <<prs_text, runVars, lmVars, chunkVars, filterVars, refineVars,
                   poolVars, utilVars>>

\* lines 322, 343: the loop condition fails
ScanEnd ==
    /\ prs_pc = "scan"
    /\ pos >= Len(prs_text)
    /\ prs_pc' = "returned"
    /\ UNCHANGED <<prs_text, pos, results, decoded, iterations, runVars, lmVars,
                   chunkVars, filterVars, refineVars,
                   poolVars, utilVars>>

NextParse == ParseCall \/ ScanStep \/ ScanEnd

SpecParse == InitParse /\ [][NextParse]_vars

(***************************************************************************)
(* _process_chunk_task after the response is parsed: the first filter      *)
(* pass, the optional refinement pass of refine_generated_cards and the    *)
(* filter pass over what it returns.  The refinement response comes from   *)
(* the model, an external collaborator: the call raises, or its text       *)
(* yields the records robust_parse_objects extracts from it.               *)
(***************************************************************************)

\* a card of a filtered batch as the dict the next filter pass reads
as_item(card) ==
    [isdict |-> TRUE, question |-> Str(card.question), Question |-> Absent,
     answer |-> Str(card.answer), Answer |-> Absent,
     deck |-> IF card.deck = NoneDeck THEN Null ELSE Str(card.deck),
     quote |-> card.quote]

as_items(cards) == [k \in DOMAIN cards |-> as_item(cards[k])]

\* what the refinement call did: call_lm_studio raised ("network_error"
\* after its retries, "stopped" on cancellation) or returned a text with
\* these records in it ("response")
Refinement(kind, records) == [kind |-> kind, records |-> records]

\* lines 394-395: {c[field].strip().lower(): c.get('quote', '') for c in cards}
RECURSIVE quote_map(_, _, _)
quote_map(cards, field, m) ==
    IF cards = <<>> THEN m
    ELSE quote_map(Tail(cards), field,
                   dict_set(m.keys, m.vals, lower(strip(Head(cards)[field])),
                            Head(cards).quote))

\* lines 399-400: r_card.get(field, '').strip().lower() raises
\* AttributeError on a value that is not a string
strip_raises(v) == v.kind \notin {"absent", "str"}

stripped_lower(v) == IF v.kind = "str" THEN lower(strip(v.parts[1])) ELSE <<>>

\* lines 410-414, 418-421: the quote of the first key of more than 10
\* characters that contains the text or is contained in it; <<>> for none
fuzzy_match(m, r_text) ==
    LET I == {i \in DOMAIN m.keys :
                 /\ Len(m.keys[i]) > 10
                 /\ (contains(r_text, m.keys[i]) \/ contains(m.keys[i], r_text))}
    IN  IF I = {} THEN [found |-> FALSE, quote |-> <<>>]
        ELSE [found |-> TRUE, quote |-> m.vals[CHOOSE i \in I : \A j \in I : i <= j]]

\* m[k] for a key of the dict
dict_get(m, k) == m.vals[CHOOSE i \in DOMAIN m.keys : m.keys[i] = k]

\* lines 398-421: one refined record
restore_quote(r_card, q_map, a_map) ==
    LET r_q == stripped_lower(r_card.question)
        r_a == stripped_lower(r_card.answer)
        by_q == fuzzy_match(q_map, r_q)
        by_a == fuzzy_match(a_map, r_a)
    IN  IF r_card.quote # <<>> THEN r_card
        ELSE IF \E i \in DOMAIN q_map.keys : q_map.keys[i] = r_q
             THEN [r_card EXCEPT !.quote = dict_get(q_map, r_q)]
        ELSE IF \E i \in DOMAIN a_map.keys : a_map.keys[i] = r_a
             THEN [r_card EXCEPT !.quote = dict_get(a_map, r_a)]
        ELSE IF by_q.found THEN [r_card EXCEPT !.quote = by_q.quote]
        ELSE IF by_a.found THEN [r_card EXCEPT !.quote = by_a.quote]
        ELSE r_card

\* lines 397-400: the loop over the refined records raises
restore_raises(refined_data) ==
    \E k \in DOMAIN refined_data :
        /\ refined_data[k].quote = <<>>
        /\ (strip_raises(refined_data[k].question)
              \/ strip_raises(refined_data[k].answer))

\* faulty variant: an empty refined list is returned as it is
refine_generated_cards_NoFallback(cards, outcome) ==
    LET empty_map == [keys |-> <<>>, vals |-> <<>>]
        q_map == quote_map(cards, "question", empty_map)
        a_map == quote_map(cards, "answer", empty_map)
        refined_data == outcome.records
    IN  IF cards = <<>> THEN <<>>
        ELSE IF outcome.kind # "response" THEN as_items(cards)
        ELSE IF restore_raises(refined_data) THEN as_items(cards)
        ELSE [k \in DOMAIN refined_data |->
                 restore_quote(refined_data[k], q_map, a_map)]

\* lines 345-430: the list refine_generated_cards returns; every exception
\* of the try block is caught at line 428
refine_generated_cards(cards, outcome) ==
    LET empty_map == [keys |-> <<>>, vals |-> <<>>]
        q_map == quote_map(cards, "question", empty_map)
        a_map == quote_map(cards, "answer", empty_map)
        refined_data == outcome.records
    IN  IF cards = <<>> THEN <<>>
        ELSE IF outcome.kind # "response" THEN as_items(cards)
        ELSE IF restore_raises(refined_data) THEN as_items(cards)
        ELSE IF refined_data = <<>> THEN as_items(cards)
        ELSE [k \in DOMAIN refined_data |->
                 restore_quote(refined_data[k], q_map, a_map)]

\* the texts "qqqqqqqqqqq", "qqqqqqqqqqq x", "s", "t", "b"
QLong == Rep(17, 11)
QLonger == QLong \o <<Blank, 24>>
SourceQuote == <<19>>
OwnQuote == <<20>>
ARewritten == <<2>>

with_quote(item, quote) == [item EXCEPT !.quote = quote]

\* the records of a chunk's response: quoted and unquoted cards, a yes/no
\* card, and a card whose deck is null
ChunkItems ==
    {with_quote(Item(Str(QLong), Absent, Str(APlain), Absent, Str(Bio)),
                SourceQuote),
     Item(Str(QPlain), Absent, Str(APlain), Absent, Str(OtherDeck)),
     Item(Str(QCell), Absent, Str(yes), Absent, Absent),
     Item(Str(QPlain), Absent, Str(APlain), Absent, Null)}

\* the records of a refinement response: a rewritten card, an unchanged
\* one, one with its own quote, one whose question is a list, a yes/no card,
\* and a card whose deck is null
RefinedItems ==
    {Item(Str(QLonger), Absent, Str(ARewritten), Absent, Str(Bio)),
     Item(Str(QPlain), Absent, Str(APlain), Absent, Str(Cell)),
     with_quote(Item(Str(QCell), Absent, Str(ARewritten), Absent, Absent),
                OwnQuote),
     Item(List(<<QPlain>>), Absent, Str(APlain), Absent, Absent),
     Item(Str(QPlain), Absent, Str(yes), Absent, Absent),
     Item(Str(QPlain), Absent, Str(APlain), Absent, Null)}

BatchesOf(S, n) == UNION {[1..k -> S] : k \in 0..n}

\* what a refinement call can do
Refinements ==
    {Refinement("network_error", <<>>), Refinement("stopped", <<>>)}
        \cup {Refinement("response", b) : b \in BatchesOf(RefinedItems, MaxBatch)}

\* the response of the chunk has just been parsed (line 599)
InitRefine ==
    /\ rf_pc = "first_pass"
    /\ raw_data_list \in BatchesOf(ChunkItems, MaxBatch)
    /\ deck_names \in DeckLists
    /\ smart_deck_match \in BOOLEAN
    /\ filter_yes_no \in BOOLEAN
    /\ ai_refinement \in BOOLEAN
    /\ temp_cards = <<>>
    /\ refinement = NoRefinement
    /\ refined_raw = <<>>
    /\ chunk_cards = <<>>
    /\ chunk_error = FALSE
    /\ flt_pc = "idle"
    /\ flt_result = [raises |-> FALSE, cards |-> <<>>]
    /\ RunIdle
    /\ LMIdle
    /\ ChunkIdle
    /\ ParseIdle
    /\ PoolIdle
    /\ UtilIdle

\* lines 605-608, 617, 619: the first pass, up to the refinement call; r is
\* what the filter returns
FirstPass ==
    /\ rf_pc = "first_pass"
    /\ \E r \in {filter_and_process_cards(raw_data_list, deck_names,
                                          smart_deck_match, filter_yes_no)} :
         /\ chunk_error' = r.raises
         /\ temp_cards' = r.cards
         /\ chunk_cards' = IF ai_refinement THEN <<>> ELSE r.cards
         /\ rf_pc' = IF ~r.raises /\ ai_refinement /\ r.cards # <<>>
                     THEN "refine" ELSE "done"
    /\ UNCHANGED <<ai_refinement, refinement, refined_raw, runVars, lmVars,
                   chunkVars, filterVars, parseVars, poolVars, utilVars>>

\* lines 613-615, 619: the refinement call and the filter pass over the
\* list raw it returns; r is what the filter returns
SecondPass ==
    /\ rf_pc = "refine"
    /\ \E outcome \in Refinements :
         \E raw \in {refine_generated_cards(temp_cards, outcome)} :
           \E r \in {filter_and_process_cards(raw, deck_names,
                                              smart_deck_match, filter_yes_no)} :
             /\ refinement' = outcome
             /\ refined_raw' = raw
             /\ chunk_error' = r.raises
             /\ chunk_cards' = r.cards
    /\ rf_pc' = "done"
    /\ UNCHANGED <<ai_refinement, temp_cards, runVars, lmVars, chunkVars,
                   filterVars, parseVars, poolVars, utilVars>>

NextRefine == FirstPass \/ SecondPass

SpecRefine == InitRefine /\ [][NextRefine]_vars

(***************************************************************************)
(* generate_qa_pairs, lines 774-790: the size of the worker pool.          *)
(***************************************************************************)

\* line 775: os.cpu_count() or 1
cpu_or_one(n) == IF n = 0 THEN 1 ELSE n

\* generate_qa_pairs has reached line 774
InitPool ==
    /\ pl_pc = "sizing"
    /\ pl_concurrency \in 1..MaxRequested
    /\ pl_deterministic_mode \in BOOLEAN
    /\ os_cpu_count \in 0..MaxCpus
    /\ max_workers = 0
    /\ RunIdle
    /\ LMIdle
    /\ ChunkIdle
    /\ FilterIdle
    /\ ParseIdle
    /\ RefineIdle
    /\ UtilIdle

\* lines 775-790
CreatePool ==
    /\ pl_pc = "sizing"
    /\ max_workers' = pool_size(pl_concurrency, cpu_or_one(os_cpu_count),
                                pl_deterministic_mode)
    /\ pl_pc' = "created"
    /\ UNCHANGED <<pl_concurrency, pl_deterministic_mode, os_cpu_count, runVars,
                   lmVars, chunkVars, filterVars, parseVars, refineVars,
                   utilVars>>

NextPool == CreatePool

SpecPool == InitPool /\ [][NextPool]_vars

(***************************************************************************)
(* PipelineStats under concurrent callers (pipeline_utils.py lines 9-56).  *)
(* A mutator is "with self._lock: self.metrics[key] += amount": the thread *)
(* takes the lock, reads the counter, writes the sum and leaves the with   *)
(* block.  The time fields are left out.                                   *)
(***************************************************************************)
MaxThreads == 2
MaxCalls == 2
MaxCount == 2

StatsThreads == 1..MaxThreads

\* the calls of the counting mutators: the counter and the amount added
StatCalls ==
    {[key |-> k, amount |-> 1] :
        k \in {"total_chunks", "processed_chunks", "failed_chunks"}}
    \cup {[key |-> k, amount |-> n] :
            k \in {"cards_generated", "cards_rejected"}, n \in 1..MaxCount}

\* faulty variant: the with block is entered whoever holds the lock
lock_free_Ignored(holder) == TRUE

\* threading.Lock: "with lock" blocks while another thread holds it
lock_free(holder) == holder = 0

\* the threads are about to make their calls on a fresh PipelineStats
InitStats ==
    /\ ps_lock = 0
    /\ ps_metrics = PipelineStats
    /\ ps_pc = [t \in StatsThreads |-> "idle"]
    /\ ps_call = [t \in StatsThreads |-> [key |-> "total_chunks", amount |-> 1]]
    /\ ps_tmp = [t \in StatsThreads |-> 0]
    /\ ps_left \in [StatsThreads -> 0..MaxCalls]
    /\ ps_applied = PipelineStats
    /\ LogIdle
    /\ RunIdle
    /\ LMIdle
    /\ ChunkIdle
    /\ FilterIdle
    /\ ParseIdle
    /\ RefineIdle
    /\ PoolIdle

statsRest == <<runVars, lmVars, chunkVars, filterVars, parseVars, refineVars,
               poolVars, logVars>>

\* a thread calls a mutator and enters its with block
StatsEnter(t) ==
    /\ ps_pc[t] = "idle"
    /\ ps_left[t] > 0
    /\ lock_free(ps_lock)
    /\ \E c \in StatCalls : ps_call' = [ps_call EXCEPT ![t] = c]
    /\ ps_lock' = t
    /\ ps_pc' = [ps_pc EXCEPT ![t] = "locked"]
    /\ UNCHANGED <<ps_metrics, ps_tmp, ps_left, ps_applied, statsRest>>

\* "self.metrics[key] += amount", the read
StatsRead(t) ==
    /\ ps_pc[t] = "locked"
    /\ ps_tmp' = [ps_tmp EXCEPT ![t] = ps_metrics[ps_call[t].key]]
    /\ ps_pc' = [ps_pc EXCEPT ![t] = "read"]
    /\ UNCHANGED <<ps_lock, ps_metrics, ps_call, ps_left, ps_applied, statsRest>>

\* "self.metrics[key] += amount", the write
StatsWrite(t) ==
    /\ ps_pc[t] = "read"
    /\ ps_metrics' =
         [ps_metrics EXCEPT ![ps_call[t].key] = ps_tmp[t] + ps_call[t].amount]
    /\ ps_applied' = [ps_applied EXCEPT ![ps_call[t].key] = @ + ps_call[t].amount]
    /\ ps_pc' = [ps_pc EXCEPT ![t] = "written"]
    /\ UNCHANGED <<ps_lock, ps_call, ps_tmp, ps_left, statsRest>>

\* the with block ends: the lock is released and the mutator returns
StatsExit(t) ==
    /\ ps_pc[t] = "written"
    /\ ps_lock' = 0
    /\ ps_pc' = [ps_pc EXCEPT ![t] = "idle"]
    /\ ps_left' = [ps_left EXCEPT ![t] = @ - 1]
    /\ UNCHANGED <<ps_metrics, ps_call, ps_tmp, ps_applied, statsRest>>

NextStats ==
    \/ \E t \in DOMAIN ps_pc : StatsEnter(t)
    \/ \E t \in DOMAIN ps_pc : StatsRead(t)
    \/ \E t \in DOMAIN ps_pc : StatsWrite(t)
    \/ \E t \in DOMAIN ps_pc : StatsExit(t)

SpecStats == InitStats /\ [][NextStats]_vars

(***************************************************************************)
(* FailureLogger under concurrent callers (pipeline_utils.py lines 71-102).*)
(* log_failed_chunk and log_rejected_card build their entry and call       *)
(* _append_to_log: under the module's _file_lock the file is opened for    *)
(* appending, json.dump writes the object in several writes, a newline is  *)
(* written and the file is closed.  Every write is taken to reach the file *)
(* at once.                                                                *)
(***************************************************************************)
LogThreads == 1..MaxThreads

\* the entry of the k-th call of thread t to file f, which stands for its
\* fields run_id, timestamp, context and reason
log_entry(t, k, f) == [caller |-> t, call |-> k, file |-> f]

\* the writes an entry takes
entry_writes(e) ==
    <<[entry |-> e, part |-> "head"], [entry |-> e, part |-> "tail"],
      [entry |-> e, part |-> "newline"]>>

\* faulty variant: mode 'w' empties the file
open_truncate(content) == <<>>

\* open(filepath, 'a'): the content stays, writes go to the end
open_append(content) == content

\* the threads are about to make their calls; the log files are empty
InitLog ==
    /\ fl_lock = 0
    /\ fl_pc = [t \in LogThreads |-> "idle"]
    /\ fl_entry = [t \in LogThreads |-> log_entry(t, 0, "failed_chunks_log.jsonl")]
    /\ fl_path = [t \in LogThreads |-> "failed_chunks_log.jsonl"]
    /\ fl_files = [f \in LogFiles |-> <<>>]
    /\ fl_order = [f \in LogFiles |-> <<>>]
    /\ fl_left \in [LogThreads -> 0..MaxCalls]
    /\ StatsIdle
    /\ RunIdle
    /\ LMIdle
    /\ ChunkIdle
    /\ FilterIdle
    /\ ParseIdle
    /\ RefineIdle
    /\ PoolIdle

logRest == <<runVars, lmVars, chunkVars, filterVars, parseVars, refineVars,
             poolVars, statsVars>>

\* lines 78-95, 99: a thread calls log_failed_chunk or log_rejected_card,
\* builds the entry and takes _file_lock
LogEnter(t) ==
    /\ fl_pc[t] = "idle"
    /\ fl_left[t] > 0
    /\ lock_free(fl_lock)
    /\ \E f \in LogFiles :
         /\ fl_path' = [fl_path EXCEPT ![t] = f]
         /\ fl_entry' = [fl_entry EXCEPT ![t] = log_entry(t, fl_entry[t].call + 1, f)]
         /\ fl_order' =
              [fl_order EXCEPT ![f] = Append(@, log_entry(t, fl_entry[t].call + 1, f))]
    /\ fl_lock' = t
    /\ fl_pc' = [fl_pc EXCEPT ![t] = "locked"]
    /\ UNCHANGED <<fl_files, fl_left, logRest>>

\* line 100: open(filepath, 'a')
LogOpen(t) ==
    /\ fl_pc[t] = "locked"
    /\ fl_files' = [fl_files EXCEPT ![fl_path[t]] = open_append(@)]
    /\ fl_pc' = [fl_pc EXCEPT ![t] = "opened"]
    /\ UNCHANGED <<fl_lock, fl_entry, fl_path, fl_order, fl_left, logRest>>

\* line 101: json.dump, its first write
LogDump(t) ==
    /\ fl_pc[t] = "opened"
    /\ fl_files' =
         [fl_files EXCEPT ![fl_path[t]] = Append(@, entry_writes(fl_entry[t])[1])]
    /\ fl_pc' = [fl_pc EXCEPT ![t] = "head"]
    /\ UNCHANGED <<fl_lock, fl_entry, fl_path, fl_order, fl_left, logRest>>

\* line 101: json.dump, the rest of the object
LogDumpEnd(t) ==
    /\ fl_pc[t] = "head"
    /\ fl_files' =
         [fl_files EXCEPT ![fl_path[t]] = Append(@, entry_writes(fl_entry[t])[2])]
    /\ fl_pc' = [fl_pc EXCEPT ![t] = "dumped"]
    /\ UNCHANGED <<fl_lock, fl_entry, fl_path, fl_order, fl_left, logRest>>

\* line 102: f.write('\n')
LogNewline(t) ==
    /\ fl_pc[t] = "dumped"
    /\ fl_files' =
         [fl_files EXCEPT ![fl_path[t]] = Append(@, entry_writes(fl_entry[t])[3])]
    /\ fl_pc' = [fl_pc EXCEPT ![t] = "line"]
    /\ UNCHANGED <<fl_lock, fl_entry, fl_path, fl_order, fl_left, logRest>>

\* the with blocks end: the file is closed, the lock released, the call returns
LogExit(t) ==
    /\ fl_pc[t] = "line"
    /\ fl_lock' = 0
    /\ fl_pc' = [fl_pc EXCEPT ![t] = "idle"]
    /\ fl_left' = [fl_left EXCEPT ![t] = @ - 1]
    /\ UNCHANGED <<fl_entry, fl_path, fl_files, fl_order, logRest>>

NextLog ==
    \/ \E t \in DOMAIN fl_pc : LogEnter(t)
    \/ \E t \in DOMAIN fl_pc : LogOpen(t)
    \/ \E t \in DOMAIN fl_pc : LogDump(t)
    \/ \E t \in DOMAIN fl_pc : LogDumpEnd(t)
    \/ \E t \in DOMAIN fl_pc : LogNewline(t)
    \/ \E t \in DOMAIN fl_pc : LogExit(t)

SpecLog == InitLog /\ [][NextLog]_vars

(***************************************************************************)
(* Vocabulary of the properties of a run.                                  *)
(***************************************************************************)
Range(f) == {f[k] : k \in DOMAIN f}

Questions(cards) == {c.question : c \in Range(cards)}

\* the run went through the dispatch and returned its list
Completed == pc = "returned" /\ probe = NoProbe

\* the chunks whose model call raises
FailingChunks == {i \in Chunks : response[i].raises}

\* question texts of the cards the validator accepts, over the chunks whose
\* call succeeds
ExpectedQuestions ==
    UNION {{c.question : c \in {d \in Range(response[i].cards) : valid(d)}} :
           i \in Chunks \ FailingChunks}

\* the candidate cards the aggregating loop has consumed so far
RECURSIVE SumOver(_, _)
SumOver(S, f) ==
    IF S = {} THEN 0
    ELSE LET i == CHOOSE x \in S : TRUE IN f[i] + SumOver(S \ {i}, f)

ConsumedCandidates == SumOver(consumed, [i \in consumed |-> Len(fut[i].cards)])

ConsumedInvalid ==
    SumOver(consumed,
            [i \in consumed |->
               Cardinality({k \in DOMAIN fut[i].cards : ~valid(fut[i].cards[k])})])

\* the model calls issued so far, over all chunks
ModelCallCount == SumOver(DOMAIN model_calls, model_calls)

\* the list a strictly sequential, index-ordered run over the chunks returns
RECURSIVE SequentialResult(_, _, _)
SequentialResult(i, all, seen) ==
    IF i > Cardinality(Chunks) THEN all
    ELSE LET st == aggregate_chunk(all, seen, PipelineStats, <<>>,
                                   IF response[i].raises THEN <<>>
                                   ELSE response[i].cards)
         IN  SequentialResult(i + 1, st.all, st.seen)

\* a step of the run other than the caller's cancellation request
RunStep ==
    \/ AsCompleted
    \/ \E i \in (IF Submitted THEN OldestQueued ELSE {}) : TaskStart(i)
    \/ \E i \in (IF Submitted THEN Running ELSE {}) : TaskFinish(i)
    \/ \E i \in NextFuture : Consume(i)
    \/ LoopEnd
    \/ Return

(***************************************************************************)
(* C1  Failure isolation.  In a run that is not cancelled and in which the *)
(* model call raises for the chunks of F and succeeds for the others, the  *)
(* run is never stuck before it returns, and when it has returned the      *)
(* result holds exactly the accepted questions of the chunks outside F,    *)
(* every card of the result is a valid card of a chunk outside F,          *)
(* failed_chunks = |F| and processed_chunks = n - |F|.                     *)
(***************************************************************************)
C1_FailureIsolation ==
    /\ Submitted => ENABLED RunStep
    /\ (Completed /\ ~stop) =>
         /\ metrics.failed_chunks = Cardinality(FailingChunks)
         /\ metrics.processed_chunks =
              Cardinality(Chunks) - Cardinality(FailingChunks)
         /\ Questions(all_qa_pairs) = ExpectedQuestions
         /\ \A c \in Range(all_qa_pairs) :
               /\ valid(c)
               /\ \E i \in Chunks \ FailingChunks : c \in Range(response[i].cards)
         /\ Len(failed_chunks_log) = Cardinality(FailingChunks)

\* chunk 2 of 3 failed, the cards of chunks 1 and 3 are returned
C1_Witness ==
    /\ Completed /\ ~stop
    /\ Cardinality(Chunks) = 3
    /\ FailingChunks = {2}
    /\ Len(all_qa_pairs) = 2
    /\ metrics.failed_chunks = 1
    /\ metrics.processed_chunks = 2

(***************************************************************************)
(* C2  Deduplication.  In every reachable state no two cards of the result *)
(* share a question text (compared exactly, case included), the set of     *)
(* seen questions is the set of the result's questions, and every consumed *)
(* valid candidate that is not in the result was counted once in           *)
(* cards_rejected, next to the invalid ones.                               *)
(***************************************************************************)
C2_Deduplication ==
    /\ \A j, k \in DOMAIN all_qa_pairs :
          all_qa_pairs[j].question = all_qa_pairs[k].question => j = k
    /\ seen_questions_global = Questions(all_qa_pairs)
    /\ metrics.cards_rejected =
          ConsumedInvalid + (ConsumedCandidates - ConsumedInvalid - Len(all_qa_pairs))

\* two chunks produced a valid card with the same question: one is kept,
\* the other is counted as rejected
C2_Witness ==
    /\ Completed
    /\ \E i, j \in consumed :
          /\ i # j
          /\ fut[i].cards = <<Card(Q1, A1)>>
          /\ fut[j].cards = <<Card(Q1, A2)>>
          /\ consumed = {i, j}
    /\ Len(all_qa_pairs) = 1
    /\ metrics.cards_rejected = 1

(***************************************************************************)
(* C3  Deterministic mode.  A run with deterministic_mode, not cancelled,  *)
(* returns the list of the sequential index-ordered run over its chunks:   *)
(* the same list for the same chunk-to-response mapping, the cards of      *)
(* chunk i before those of chunk j whenever i < j.                         *)
(***************************************************************************)
C3_DeterministicOrder ==
    (Completed /\ deterministic_mode /\ ~stop) =>
        all_qa_pairs = SequentialResult(1, <<>>, {})

(***************************************************************************)
(* C4  Order-independence of membership.  In a run that is not cancelled,  *)
(* whatever the order in which the futures completed and were consumed and *)
(* whatever the pool size, the question texts of the result are those of   *)
(* the valid cards of the chunks whose call succeeded.                     *)
(***************************************************************************)
C4_MembershipOrderIndependent ==
    (Completed /\ ~stop) =>
        /\ Questions(all_qa_pairs) = ExpectedQuestions
        /\ seen_questions_global = ExpectedQuestions

\* two workers; the card of chunk 2 was consumed before the card of chunk 1
C4_Witness ==
    /\ Completed /\ ~stop
    /\ concurrency = 2
    /\ Cardinality(Chunks) = 2
    /\ response[1].cards = <<Card(Q1, A1)>>
    /\ response[2].cards = <<Card(QShort, A1), Card(Q1Upper, A1)>>
    /\ all_qa_pairs = <<Card(Q1Upper, A1), Card(Q1, A1)>>

\* the failures the retry contract names as network-level
NetworkFailures == {"URLError", "timeout", "IncompleteRead", "ConnectionError"}

\* the failures the retry contract names as not network-level: a response
\* status other than 200, an error status answered by the server, any other
\* exception
NonNetworkFailures == {"status_not_200", "HTTPError", "Other"}

\* the error of a call aborted by the cancellation probe
Stopped == Raised(other_exception("stopped"))

C6_StreamCancellation ==
    [][ /\ (Len(lines') = Len(lines) + 1) <=> (probe_calls' = probe_calls + 1)
        /\ probe_calls' \in {probe_calls, probe_calls + 1}
        /\ (stop /\ Len(lines') = Len(lines) + 1) =>
             /\ lm_pc' = "raised"
             /\ lm_result' = Stopped
             /\ full_response' = full_response
             /\ requests' = requests
        /\ lm_result = Stopped =>
             UNCHANGED <<lm_pc, lm_result, requests, sleeps>>
      ]_vars

\* a retried call, cancelled on a line that carries a fragment, after text
\* was accumulated
C6_Witness ==
    /\ lm_result = Stopped
    /\ attempt = 1
    /\ failures = <<"timeout", "stopped">>
    /\ full_response = <<1>>
    /\ lines = <<Line("content", 1), Line("content", 2)>>

(***************************************************************************)
(* C7  Only network-level failures are retried.  A failure that is not     *)
(* network-level is the last failure of the call: the call has raised,     *)
(* the failing request is the last one issued, and no backoff wait follows *)
(* it.                                                                     *)
(***************************************************************************)
C7_OnlyNetworkRetried ==
    \A k \in DOMAIN failures :
        failures[k] \in NonNetworkFailures =>
            /\ k = Len(failures)
            /\ lm_pc = "raised"
            /\ requests = k
            /\ Len(sleeps) = k - 1

\* the content fragments, in arrival order, of the lines before the first
\* 'data: [DONE]' line
RECURSIVE ContentBeforeDone(_)
ContentBeforeDone(ls) ==
    IF ls = <<>> \/ Head(ls).kind = "done" THEN <<>>
    ELSE (IF Head(ls).kind = "content" THEN <<Head(ls).content>> ELSE <<>>)
         \o ContentBeforeDone(Tail(ls))

(***************************************************************************)
(* C11  Stream accumulation.  While a stream is read, the accumulated text *)
(* is the concatenation, in arrival order, of the content fragments of the *)
(* lines received on this attempt; a call that returned returns the        *)
(* fragments of the lines before the first [DONE] line of its last         *)
(* attempt; a skipped line never ends the call.                            *)
(***************************************************************************)
C11_StreamAccumulation ==
    /\ lm_pc = "reading" =>
          /\ full_response = ContentBeforeDone(lines)
          /\ \A k \in DOMAIN lines : lines[k].kind # "done"
    /\ lm_pc = "returned" =>
          /\ lm_result = Returned(ContentBeforeDone(lines))
          /\ \A k \in DOMAIN lines :
                lines[k].kind = "done" => k = Len(lines)

\* two fragments around a malformed line, on a retried attempt, then the
\* connection closes
C11_Witness ==
    /\ lm_pc = "returned"
    /\ attempt = 1
    /\ lines = <<Line("content", 2), Line("bad_json", 0), Line("content", 1)>>
    /\ lm_result = Returned(<<2, 1>>)

(***************************************************************************)
(* C12  Chunk size bound.  Every chunk smart_chunk_text returns is         *)
(* non-empty and has at most max_chars characters, for every text and      *)
(* every budget >= 1: a token longer than the budget is hard-split, so no  *)
(* chunk is over the budget at all.                                        *)
(***************************************************************************)
C12_ChunkSizeBound ==
    ch_pc = "returned" =>
        \A k \in DOMAIN ch_chunks :
            /\ ch_chunks[k] # <<>>
            /\ Len(ch_chunks[k]) <= ch_max_chars

\* a token of five letters under a budget of two, split by sentence and hard
\* split
C12_Witness ==
    /\ ch_pc = "returned"
    /\ ch_text = <<Letter, Letter, Letter, Letter, Letter>>
    /\ ch_max_chars = 2
    /\ ch_min_chars = 0
    /\ ch_chunks = <<<<Letter, Letter>>, <<Letter, Letter>>, <<Letter>>>>

(***************************************************************************)
(* C13  Chunking loses nothing.  The chunks smart_chunk_text returns,      *)
(* concatenated in order, are the text it was given.                       *)
(***************************************************************************)
C13_ChunkingLosesNothing ==
    ch_pc = "returned" => Flatten(ch_chunks) = ch_text

\* filter_and_process_cards has returned a list
FilterReturned == flt_pc = "returned" /\ ~flt_result.raises

(***************************************************************************)
(* C14  Category membership.  Whenever the allowed category list is not    *)
(* empty, every card filter_and_process_cards returns has a deck of that   *)
(* list, for every deck value of the record and both settings of           *)
(* smart_deck_match.                                                       *)
(***************************************************************************)
C14_CategoryMembership ==
    (FilterReturned /\ deck_names # <<>>) =>
        \A k \in DOMAIN flt_result.cards :
            \E d \in DOMAIN deck_names :
                flt_result.cards[k].deck = deck_names[d]

\* a deck outside the list falls back to the first category, the content
\* match moves it to Cell, and the majority vote moves the other card too
C14_Witness ==
    /\ FilterReturned
    /\ deck_names = <<Bio, Cell>>
    /\ smart_deck_match
    /\ raw_data_list =
           <<Item(Str(QCell), Absent, Str(APlain), Absent, Str(OtherDeck)),
             Item(Str(QPlain), Absent, Str(APlain), Absent, Str(BioX))>>
    /\ flt_result.cards =
           <<FilteredCard(QCell, APlain, Cell, <<>>),
             FilteredCard(QPlain, APlain, Cell, <<>>)>>

\* the text a record carries under a lower-case key or, when that key is
\* missing or empty, under the capitalised key; <<>> when it carries none
KeyText(lo, cap) ==
    LET present(v) == \/ v.kind = "str" /\ v.parts[1] # <<>>
                      \/ v.kind = "list" /\ v.parts # <<>>
        chosen == IF present(lo) THEN lo ELSE cap
    IN  IF ~present(chosen) THEN <<>>
        ELSE IF chosen.kind = "list" THEN strip(join_space(chosen.parts))
        ELSE strip(chosen.parts[1])

\* the record carries a question and an answer
HasFields(item) ==
    /\ item.isdict
    /\ KeyText(item.question, item.Question) # <<>>
    /\ KeyText(item.answer, item.Answer) # <<>>

QA(q, a) == <<q, a>>

(***************************************************************************)
(* C15  Non-empty fields.  Every returned card has a question and an       *)
(* answer that are trimmed and not empty; without the yes/no filter the    *)
(* returned cards are, in order, the questions and answers of the records  *)
(* that carry both (under the lower-case or the capitalised key, a list    *)
(* joined with spaces), so a record that carries none is dropped and       *)
(* changes nothing for the others.                                         *)
(***************************************************************************)
C15_NonEmptyFields ==
    FilterReturned =>
        /\ \A k \in DOMAIN flt_result.cards :
               LET card == flt_result.cards[k]
               IN  /\ card.question # <<>> /\ strip(card.question) = card.question
                   /\ card.answer # <<>> /\ strip(card.answer) = card.answer
        /\ ~filter_yes_no =>
               LET kept == SelectSeq(raw_data_list, HasFields)
               IN  [k \in DOMAIN flt_result.cards |->
                       QA(flt_result.cards[k].question, flt_result.cards[k].answer)]
                   = [k \in DOMAIN kept |->
                       QA(KeyText(kept[k].question, kept[k].Question),
                          KeyText(kept[k].answer, kept[k].Answer))]

\* a record with a whitespace-only question is dropped next to a record with
\* a list question and a padded answer
C15_Witness ==
    /\ FilterReturned
    /\ ~filter_yes_no
    /\ raw_data_list =
           <<Item(Str(<<Blank>>), Absent, Str(APlain), Absent, Absent),
             Item(List(<<QPlain, QCell>>), Absent, Str(<<Blank, 24, Blank>>),
                  Absent, Absent)>>
    /\ Len(flt_result.cards) = 1
    /\ flt_result.cards[1].question = QPlain \o <<Blank>> \o QCell
    /\ flt_result.cards[1].answer = APlain

\* c is a letter
isletter(c) == c \in 1..52 \/ c = DotlessI

\* the answer is an affirmative or negative token, with or without a full
\* stop, or begins with one (the token ends where the answer ends or a
\* character that is not a letter follows)
AnswersYesOrNo(a_text) ==
    LET a_lower == strip(lower(a_text))
    IN  \E t \in yes_no_tokens :
            /\ startswith(a_lower, t)
            /\ Len(a_lower) > Len(t) => ~isletter(a_lower[Len(t) + 1])

(***************************************************************************)
(* C16  Yes/no filtering.  With filter_yes_no the returned cards are those *)
(* returned without it whose answer neither is nor begins with an          *)
(* affirmative or negative token; no such answer is returned.              *)
(***************************************************************************)
C16_YesNoFiltering ==
    (FilterReturned /\ filter_yes_no) =>
        LET base == filter_and_process_cards(raw_data_list, deck_names,
                                             smart_deck_match, FALSE).cards
            kept == SelectSeq(base, LAMBDA card : ~AnswersYesOrNo(card.answer))
        IN  [k \in DOMAIN flt_result.cards |->
                QA(flt_result.cards[k].question, flt_result.cards[k].answer)]
            = [k \in DOMAIN kept |-> QA(kept[k].question, kept[k].answer)]

\* the decoded value is a record: a dict with a question key and an answer
\* key
IsRecord(node) ==
    /\ node.kind = "obj"
    /\ \E i \in DOMAIN node.keys : node.keys[i] \in {KeyQuestion, KeyQuestionCap}
    /\ \E i \in DOMAIN node.keys : node.keys[i] = KeyAnswer

\* the outermost records inside a decoded value, in document order
RECURSIVE NestedRecords(_)
NestedRecords(node) ==
    IF IsRecord(node) THEN <<node>>
    ELSE Flatten([k \in DOMAIN node.vals |-> NestedRecords(node.vals[k])])

(***************************************************************************)
(* C17  Wrapper objects.  Every object robust_parse_objects emits has a    *)
(* question key and an answer key, so a wrapper is never emitted; and the  *)
(* objects emitted are, in order, the records nested at any depth in the   *)
(* values and lists of the objects decoded.                                *)
(***************************************************************************)
C17_WrapperObjects ==
    /\ \A k \in DOMAIN results : IsRecord(results[k])
    /\ results = Flatten([k \in DOMAIN decoded |-> NestedRecords(decoded[k])])

\* a wrapper holding a list with a card and a second wrapper around a card
C17_Witness ==
    /\ prs_pc = "returned"
    /\ prs_text = DeepWrapperText
    /\ Len(decoded) = 1
    /\ ~IsRecord(decoded[1])
    /\ Len(results) = 2
    /\ results[1] = results[2]
    /\ results[1].keys = <<KeyQuestion, KeyAnswer>>

(***************************************************************************)
(* C18  Extractor termination.  Every iteration of the scan loop either    *)
(* ends the loop or moves the scan position strictly forward, after a      *)
(* successful decode and after a failed one; the position never passes the *)
(* end of the text, so the loop runs at most once per position and the     *)
(* call returns.                                                           *)
(***************************************************************************)
C18_ExtractorTermination ==
    [][ /\ (iterations' = iterations + 1 /\ prs_pc' = "scan") =>
              /\ pos' > pos
              /\ pos' <= Len(prs_text)
        /\ iterations' \in {iterations, iterations + 1}
        /\ iterations' <= Len(prs_text)
      ]_vars

\* a stray brace fails to decode, the scan moves to the card behind it and
\* past it
C18_Witness ==
    /\ prs_pc = "returned"
    /\ prs_text = <<LBrace>> \o CardText
    /\ decoded # <<>>
    /\ iterations = 2
    /\ pos = Len(prs_text)

\* the refinement call failed or its response held no record, or a record
\* without a quote held a question or an answer that is not a text
RefinementFailed ==
    \/ refinement.kind \in {"network_error", "stopped"}
    \/ /\ refinement.kind = "response"
       /\ \/ refinement.records = <<>>
          \/ \E k \in DOMAIN refinement.records :
                 /\ refinement.records[k].quote = <<>>
                 /\ \E v \in {refinement.records[k].question,
                              refinement.records[k].answer} :
                        v.kind \notin {"absent", "str"}

(***************************************************************************)
(* C19  Refinement keeps the work.  When the refinement call fails or its  *)
(* response yields no record, refine_generated_cards returns the batch it  *)
(* was given, the chunk does not fail and the chunk's cards are the cards  *)
(* of the first pass.                                                      *)
(***************************************************************************)
C19_RefinementKeepsWork ==
    (rf_pc = "done" /\ refinement # NoRefinement /\ RefinementFailed) =>
        /\ refined_raw = as_items(temp_cards)
        /\ ~chunk_error
        /\ chunk_cards = temp_cards

\* a refinement response without records left a batch of two cards as it was
C19_Witness ==
    /\ rf_pc = "done"
    /\ refinement = Refinement("response", <<>>)
    /\ Len(temp_cards) = 2
    /\ chunk_cards = temp_cards
    /\ ~chunk_error

(***************************************************************************)
(* C20  Worker pool size.  The pool is created with                        *)
(* min(requested concurrency, processing units) workers, with one worker   *)
(* when the number of processing units is unknown, and with exactly one    *)
(* worker under deterministic mode.                                        *)
(***************************************************************************)
C20_WorkerPoolSize ==
    pl_pc = "created" =>
        max_workers =
            IF pl_deterministic_mode THEN 1
            ELSE IF os_cpu_count = 0 THEN 1
            ELSE IF pl_concurrency <= os_cpu_count THEN pl_concurrency
            ELSE os_cpu_count

\* a request above the processing units is limited to them
C20_Witness ==
    /\ pl_pc = "created"
    /\ ~pl_deterministic_mode
    /\ pl_concurrency = 8
    /\ os_cpu_count = 4
    /\ max_workers = 4

(***************************************************************************)
(* C8  Run-level cancellation.  Once the probe answers true, no step       *)
(* issues a model call, no step reads a further future's result, and the   *)
(* result list keeps the cards accepted before.                            *)
(***************************************************************************)
C8_RunCancellation ==
    [][stop => /\ ModelCallCount' = ModelCallCount
               /\ consumed' = consumed
               /\ all_qa_pairs' = all_qa_pairs]_vars

\* cancelled run: a chunk was never called, a finished future was never
\* read, and a card accepted before the cancellation is returned
C8_Witness ==
    /\ Completed /\ stop
    /\ \E i \in Chunks : model_calls[i] = 0
    /\ \E i \in Chunks \ consumed : fut[i].state = "finished" /\ fut[i].cards # <<>>
    /\ all_qa_pairs # <<>>

(***************************************************************************)
(* C9  Pre-flight chunk limit.  Once the chunks are counted, the run has   *)
(* raised exactly when their number exceeds MAX_CHUNKS (MAX_CHUNKS itself  *)
(* is accepted, MAX_CHUNKS + 1 is not), and a run that raised submitted no *)
(* task and made no model call.                                            *)
(***************************************************************************)
C9_PreflightLimit ==
    (probe = NoProbe /\ pc \notin {"health", "chunk"}) =>
        /\ pc = "raised" <=> Cardinality(Chunks) > MAX_CHUNKS
        /\ pc = "raised" =>
              /\ task = <<>> /\ fut = <<>> /\ model_calls = <<>>
              /\ all_qa_pairs = <<>>

\* a document of MAX_CHUNKS + 1 chunks was refused
C9_Witness ==
    /\ pc = "raised"
    /\ Cardinality(Chunks) = MAX_CHUNKS + 1
    /\ metrics.total_chunks = MAX_CHUNKS + 1

(***************************************************************************)
(* C10  The reachability probe gates the run.  After the probe the run     *)
(* goes on exactly when the models-listing request succeeded or, that      *)
(* failing, the socket connect succeeded; when both failed it has returned *)
(* with no chunk, no task, no model call and no card.                      *)
(***************************************************************************)
C10_ProbeGatesRun ==
    probe # NoProbe =>
        /\ pc \in {"chunk", "returned"}
        /\ pc = "chunk" <=> (probe.models = "ok" \/ probe.tcp = "ok")
        /\ pc = "returned" =>
              /\ response = <<>> /\ task = <<>> /\ model_calls = <<>>
              /\ all_qa_pairs = <<>>
              /\ metrics = PipelineStats

\* both probes failed and the run returned the empty list
C10_Witness ==
    /\ probe.models = "fail" /\ probe.tcp = "fail"
    /\ pc = "returned"
    /\ all_qa_pairs = <<>>

(***************************************************************************)
(* C27  Backoff schedule of call_lm_studio.  The k-th failed attempt, when *)
(* the failure is network-level, is followed by a wait of 2^(k-1) seconds  *)
(* (1, 2 and 4 seconds); the waits are as many as the network-level        *)
(* failures, so that none occurs on the successful path or after a         *)
(* failure that is not network-level.                                      *)
(***************************************************************************)
C27_BackoffSchedule ==
    (lm_pc \in {"returned", "raised"}) =>
        /\ \A k \in DOMAIN failures :
               failures[k] \in NetworkFailures =>
                   /\ Len(sleeps) >= k
                   /\ sleeps[k] = Pow2(k - 1)
        /\ Len(sleeps) =
               Cardinality({k \in DOMAIN failures : failures[k] \in NetworkFailures})

(***************************************************************************)
(* C29  Pre-flight limits precede all network activity.  When the chunk    *)
(* count exceeds the maximum, the run aborts before any network activity:  *)
(* at the step that refuses the document neither probe of the reachability *)
(* check has been made and no model call has been issued.                  *)
(***************************************************************************)
C29_LimitBeforeNetwork ==
    [][ (pc # "raised" /\ pc' = "raised") =>
            /\ probe = NoProbe
            /\ model_calls = <<>>
      ]_vars


\* the questions of the valid candidate cards consumed so far
ConsumedValidQuestions ==
    UNION {{fut[i].cards[k].question :
               k \in {j \in DOMAIN fut[i].cards : valid(fut[i].cards[j])}} :
           i \in consumed}

(***************************************************************************)
(* C28  Card accounting of a run in which no log write and no callback     *)
(* raises: in every state the counter cards_generated is the length of the *)
(* result list, cards_generated + cards_rejected is the number of          *)
(* candidate cards the aggregating loop has consumed, every invalid        *)
(* candidate is among the rejected ones and has its line in the rejection  *)
(* log, every card of the result is a valid candidate of a consumed chunk  *)
(* and every valid candidate's question is in the result.                  *)
(***************************************************************************)
C28_CardAccounting ==
    /\ metrics.cards_generated = Len(all_qa_pairs)
    /\ metrics.cards_generated + metrics.cards_rejected = ConsumedCandidates
    /\ metrics.cards_rejected >= ConsumedInvalid
    /\ Len(rejected_cards_log) = ConsumedInvalid
    /\ \A k \in DOMAIN all_qa_pairs : valid(all_qa_pairs[k])
    /\ Questions(all_qa_pairs) = ConsumedValidQuestions

\* a finished run that accepted a card, rejected an invalid one and rejected
\* a duplicate
C28_Witness ==
    /\ pc = "returned"
    /\ consumed = Chunks
    /\ metrics.cards_generated >= 1
    /\ ConsumedInvalid >= 1
    /\ metrics.cards_rejected > ConsumedInvalid


\* the chunks on which the model answers text that yields no record
GarbageChunks == {i \in Chunks : response[i] = Returns(<<>>)}

\* the chunks whose task has ended
DoneChunks == {i \in DOMAIN task : task[i] = "done"}

(***************************************************************************)
(* C24  Malformed output is not a failure.  As long as no cancellation is  *)
(* requested: a chunk whose response yields no record ends its task with   *)
(* the empty card list and without a line in the failure log; the ended    *)
(* tasks counted failed are exactly those whose call raised and the rest   *)
(* are counted processed; and a run in which every chunk got such a        *)
(* response returns the empty list, with every chunk processed, none       *)
(* failed and an empty failure log.                                        *)
(***************************************************************************)
C24_MalformedNotFailure ==
    ~stop =>
        /\ \A i \in GarbageChunks \cap DoneChunks :
              /\ fut[i] = Finished(<<>>)
              /\ \A k \in DOMAIN failed_chunks_log :
                    failed_chunks_log[k].chunk_index # i
        /\ metrics.failed_chunks =
              Cardinality({i \in DoneChunks : response[i].raises})
        /\ metrics.processed_chunks =
              Cardinality({i \in DoneChunks : ~response[i].raises})
        /\ (Completed /\ GarbageChunks = Chunks) =>
              /\ all_qa_pairs = <<>>
              /\ metrics.processed_chunks = metrics.total_chunks
              /\ metrics.failed_chunks = 0
              /\ failed_chunks_log = <<>>

\* a run of several chunks, all answered with garbage, has returned
C24_Witness ==
    /\ Completed
    /\ ~stop
    /\ consumed = Chunks
    /\ Cardinality(Chunks) >= 2
    /\ GarbageChunks = Chunks


(***************************************************************************)
(* C26  Chunk accounting of a run, also when a failure-log write, a        *)
(* rejection-log write or the streaming callback raises: in every state    *)
(* processed_chunks + failed_chunks <= total_chunks (no chunk is counted   *)
(* twice, none both as processed and as failed), and when a run finishes   *)
(* without cancellation processed_chunks + failed_chunks = total_chunks.   *)
(***************************************************************************)
C26_ChunkAccounting ==
    /\ metrics.processed_chunks + metrics.failed_chunks <= metrics.total_chunks
    /\ (Completed /\ ~stop) =>
          metrics.processed_chunks + metrics.failed_chunks = metrics.total_chunks


\* the cards a step appended to the result list
NewlyAccepted == SubSeq(all_qa_pairs', Len(all_qa_pairs) + 1, Len(all_qa_pairs'))

\* a streaming callback is registered and returns normally
Streaming == partial_result_callback /\ raising # "partial_result_callback"

(***************************************************************************)
(* C25  Streaming delivery.  With a streaming callback registered (one     *)
(* that returns normally): the step that consumes a chunk's result calls   *)
(* the callback exactly once, with exactly the cards that step appended to *)
(* the result list, when it appended at least one, and does not call it    *)
(* when it appended none; no other step calls it or appends a card.  So in *)
(* every state, hence before the next chunk is consumed and at the return, *)
(* the concatenation of the delivered batches is the result list, and no   *)
(* batch is empty.                                                         *)
(***************************************************************************)
C25_StreamingDelivery ==
    /\ [](Streaming =>
            /\ Flatten(delivered) = all_qa_pairs
            /\ \A k \in DOMAIN delivered : delivered[k] # <<>>)
    /\ [][ Streaming =>
             /\ Len(all_qa_pairs') >= Len(all_qa_pairs)
             /\ SubSeq(all_qa_pairs', 1, Len(all_qa_pairs)) = all_qa_pairs
             /\ IF NewlyAccepted # <<>>
                THEN /\ consumed' # consumed
                     /\ delivered' = Append(delivered, NewlyAccepted)
                ELSE delivered' = delivered
         ]_vars

\* a finished streaming run: two batches were delivered and one consumed
\* chunk added nothing
C25_Witness ==
    /\ Completed
    /\ Streaming
    /\ consumed = Chunks
    /\ Len(delivered) = 2
    /\ Cardinality(Chunks) = 3


(***************************************************************************)
(* C30  Each chunk is consumed exactly once.  Once the tasks are           *)
(* submitted there is exactly one task and one future per chunk of the     *)
(* chunker; a chunk triggers at most one generation call and at most one   *)
(* refinement call; a task that ended without a cancellation request made  *)
(* its generation call; and a refinement call was made only with           *)
(* ai_refinement enabled, after the generation call, on a chunk whose      *)
(* first filtering pass kept at least one card.                            *)
(***************************************************************************)
C30_ConsumedOnce ==
    /\ (Submitted \/ Completed) =>
          /\ DOMAIN task = Chunks
          /\ DOMAIN fut = Chunks
    /\ \A i \in DOMAIN task :
          /\ model_calls[i] <= 1
          /\ refine_calls[i] <= 1
          /\ (task[i] = "done" /\ ~stop) => model_calls[i] = 1
          /\ refine_calls[i] = 1 =>
                /\ ai_refinement
                /\ model_calls[i] = 1
                /\ ~response[i].raises
                /\ response[i].cards # <<>>

\* a finished run with refinement enabled: one chunk was refined, another,
\* whose first pass kept nothing, was not
C30_Witness ==
    /\ Completed
    /\ ~stop
    /\ ai_refinement
    /\ \E i \in Chunks : refine_calls[i] = 1
    /\ \E i \in Chunks : refine_calls[i] = 0 /\ response[i] = Returns(<<>>)


\* the checks of the validator on the trimmed question q and answer a
failing(check, q, a) ==
    CASE check = "non_empty"    -> q = <<>> \/ a = <<>>
      [] check = "question_min" -> Len(q) < 10
      [] check = "question_max" -> Len(q) > 500
      [] check = "answer_min"   -> Len(a) < 3
      [] check = "answer_max"   -> Len(a) > 1000
      [] check = "differ"       -> lower(q) = lower(a)

reason_of(check) ==
    CASE check = "non_empty"    -> "Empty Question or Answer"
      [] check = "question_min" -> "Question too short"
      [] check = "question_max" -> "Content exceeds max length"
      [] check = "answer_min"   -> "Answer too short"
      [] check = "answer_max"   -> "Content exceeds max length"
      [] check = "differ"       -> "Question and Answer are identical"

\* the reason of the first check of the order that the card fails, "" for none
first_failing(order, card) ==
    LET F == {k \in DOMAIN order :
                 failing(order[k], strip(card.question), strip(card.answer))}
    IN  IF F = {} THEN ""
        ELSE reason_of(order[CHOOSE k \in F : \A j \in F : k <= j])

\* the order in which the property lists the checks
ListedOrder ==
    <<"non_empty", "question_min", "question_max", "answer_min", "answer_max",
      "differ">>

\* both minimum lengths before the maximum lengths
MinimaFirstOrder ==
    <<"non_empty", "question_min", "answer_min", "question_max", "answer_max",
      "differ">>

\* the candidates of the consumed batch that fail a check, in batch order
FailingCards(order) ==
    SelectSeq(fut[1].cards, LAMBDA c : first_failing(order, c) # "")

\* the validation gate on the consumed batch, the checks taken in the order
ValidationGate(order) ==
    consumed = {1} =>
        /\ \A k \in DOMAIN all_qa_pairs : first_failing(order, all_qa_pairs[k]) = ""
        /\ Questions(all_qa_pairs) =
              {c.question : c \in {d \in Range(fut[1].cards) : first_failing(order, d) = ""}}
        /\ rejected_cards_log =
              [k \in 1..Len(FailingCards(order)) |->
                 [card |-> FailingCards(order)[k],
                  reason |-> first_failing(order, FailingCards(order)[k])]]
        /\ metrics.cards_rejected >= Len(FailingCards(order))
        /\ metrics.cards_rejected + Len(all_qa_pairs) = Len(fut[1].cards)

(***************************************************************************)
(* C23  Validation gate, as stated: a candidate card enters the result     *)
(* only if the validator accepts it (trimmed question and answer           *)
(* non-empty, question of 10 to 500 characters, answer of 3 to 1000,       *)
(* question and answer different ignoring case); the reason of a verdict   *)
(* is that of the first failing check in the listed order (non-empty,      *)
(* question minimum, question maximum, answer minimum, answer maximum,     *)
(* different); every failing card is counted once as rejected, has its     *)
(* line in the rejection log, is absent from the output and leaves its     *)
(* sibling cards alone.                                                    *)
(***************************************************************************)
C23_ValidationGate_Listed == ValidationGate(ListedOrder)

(***************************************************************************)
(* C23  Validation gate, amended: the same, the reason of a verdict being  *)
(* that of the first failing check in the order non-empty, question        *)
(* minimum, answer minimum, question maximum, answer maximum, different:   *)
(* a question above 500 characters with an answer below 3 is rejected as   *)
(* "Answer too short".                                                     *)
(***************************************************************************)
C23_ValidationGate == ValidationGate(MinimaFirstOrder)

\* a batch was consumed in which a card with a question of 501 characters and
\* an answer of 2 was rejected as "Answer too short" next to an accepted card
C23_Witness ==
    /\ consumed = {1}
    /\ Len(all_qa_pairs) = 1
    /\ \E k \in DOMAIN rejected_cards_log :
          /\ Len(rejected_cards_log[k].card.question) = 501
          /\ Len(rejected_cards_log[k].card.answer) = 2
          /\ rejected_cards_log[k].reason = "Answer too short"


(***************************************************************************)
(* C21  No lost updates on the run statistics.  For every interleaving of  *)
(* the mutator calls of several threads each counter equals, in every      *)
(* state and so at the end, the sum of the amounts the calls have written  *)
(* to it; and a thread that is between the entry and the exit of a         *)
(* mutator, its read and its write included, holds the object's lock.      *)
(***************************************************************************)
C21_NoLostUpdates ==
    /\ ps_metrics = ps_applied
    /\ \A t \in DOMAIN ps_pc : ps_pc[t] # "idle" => ps_lock = t

\* every thread has made all its calls, each an increment_chunk_count
C21_Witness ==
    /\ DOMAIN ps_pc = StatsThreads
    /\ \A t \in StatsThreads : ps_pc[t] = "idle" /\ ps_left[t] = 0
    /\ ps_metrics.total_chunks = MaxThreads * MaxCalls

\* s is the beginning of t
IsPrefix(s, t) == Len(s) <= Len(t) /\ SubSeq(t, 1, Len(s)) = s

\* the content of a file that holds the entries whole, one after the other
ExpectedFile(order) == Flatten([k \in DOMAIN order |-> entry_writes(order[k])])

\* the threads inside a log call
Logging == {t \in DOMAIN fl_pc : fl_pc[t] # "idle"}

RejectedQuestions == {rejected_cards_log[k].card.question : k \in DOMAIN rejected_cards_log}

(***************************************************************************)
(* C32  A validation-rejected card does not block a later one.  In every   *)
(* state the set of seen questions is the set of the question texts of the *)
(* result list; it holds the question of every valid candidate consumed so *)
(* far, also when an invalid candidate with the same question text was     *)
(* consumed before it, and holds no question that only rejected candidates *)
(* carried.                                                                *)
(***************************************************************************)
C32_RejectedDoesNotBlock ==
    /\ seen_questions_global = Questions(all_qa_pairs)
    /\ ConsumedValidQuestions \subseteq seen_questions_global
    /\ (RejectedQuestions \ ConsumedValidQuestions) \cap seen_questions_global = {}

\* the loop has ended: the first chunk held only an invalid card, the second
\* the same invalid card and then a valid one with the same question, and the
\* valid one is the result
C32_Witness ==
    /\ pc = "returned"
    /\ consumed = {1, 2}
    /\ fut[1].cards = <<Card(Q1, AShort)>>
    /\ fut[2].cards = <<Card(Q1, AShort), Card(Q1, A1)>>
    /\ all_qa_pairs = <<Card(Q1, A1)>>
    /\ Len(rejected_cards_log) = 2


(***************************************************************************)
(* C39  No partial text leaks across retries.  Every request starts its    *)
(* attempt with an empty text, whatever a failed attempt had accumulated;  *)
(* a failing attempt adds nothing to the text; so while a stream is read   *)
(* the text has at most one fragment per line received on this attempt,    *)
(* and the text a retried call returns is made of the fragments of the     *)
(* lines of its successful attempt alone.                                  *)
(***************************************************************************)
C39_NoLeakAcrossRetries ==
    /\ [][ /\ requests' = requests + 1 =>
                \/ full_response' = <<>>
                \/ lm_pc' = "raised"
           /\ Len(failures') = Len(failures) + 1 =>
                \/ full_response' = full_response
                \/ full_response' = <<>>
         ]_vars
    /\ [](lm_pc \in {"reading", "returned"} =>
              /\ Len(full_response) <= Len(lines)
              /\ \A k \in DOMAIN full_response :
                    \E j \in DOMAIN lines :
                       lines[j] = Line("content", full_response[k]))
    /\ [](lm_pc = "returned" => lm_result.text = ContentBeforeDone(lines))

\* a call returned on its second attempt the one fragment of that attempt,
\* after a first attempt that failed while its stream was read
C39_Witness ==
    /\ lm_pc = "returned"
    /\ failures = <<"IncompleteRead">>
    /\ requests = 2
    /\ lines = <<Line("content", 2), Line("done", 0)>>
    /\ lm_result = Returned(<<2>>)


\* the lines of the failure log written for chunk i
EntriesOf(i) ==
    {k \in DOMAIN failed_chunks_log : failed_chunks_log[k].chunk_index = i}

\* the first characters of a text, at most preview_len of them
FirstChars(text) ==
    [k \in 1..(IF Len(text) < preview_len THEN Len(text) ELSE preview_len) |->
       text[k]]

(***************************************************************************)
(* C37  Chunk failure record.  Every chunk whose processing raised has     *)
(* ended with no cards and with exactly one line in the failure log; every *)
(* line of the log carries the 1-based index of its chunk, an error text   *)
(* and the first characters of that chunk, at most 200 of them; no chunk   *)
(* has two lines; failed_chunks has been incremented once per failure,     *)
(* that is as often as the log has lines; and when the run completes       *)
(* without cancellation every chunk has been dispatched and consumed, the  *)
(* chunks that did not fail being counted processed.                       *)
(***************************************************************************)
C37_ChunkFailureRecord ==
    /\ \A i \in FailingChunks \cap DoneChunks :
          model_calls[i] = 1 =>
             /\ fut[i].cards = <<>>
             /\ Cardinality(EntriesOf(i)) = 1
    /\ \A k \in DOMAIN failed_chunks_log :
          LET e == failed_chunks_log[k] IN
            /\ e.chunk_index \in Chunks
            /\ task[e.chunk_index] = "done"
            /\ fut[e.chunk_index].cards = <<>>
            /\ Cardinality(EntriesOf(e.chunk_index)) = 1
            /\ e.error \in {"model call failed", "second pass failed",
                            "Processing stopped by user."}
            /\ Len(e.chunk_preview) <= preview_len
            /\ e.chunk_preview = FirstChars(chunks[e.chunk_index])
    /\ metrics.failed_chunks = Len(failed_chunks_log)
    /\ (Completed /\ ~stop) =>
          /\ consumed = Chunks
          /\ \A i \in Chunks : model_calls[i] = 1
          /\ metrics.processed_chunks + metrics.failed_chunks =
                metrics.total_chunks

\* the same record in the runs where no log write and no callback raises
C37_RecordWithoutFaults == raising = "none" => C37_ChunkFailureRecord


\* the chunks counted so far by their tasks: those that made their call
CalledAndDone == {i \in DoneChunks : model_calls[i] = 1}

(***************************************************************************)
(* C40  How cancellation is accounted per chunk.  A task that leaves the   *)
(* queue while the probe answers true ends at once with the empty list,    *)
(* makes no model call, changes no counter and writes no failure line, so  *)
(* the chunks that made no call are counted neither processed nor failed.  *)
(* A task whose generation call the probe aborted ends without cards, adds *)
(* one to failed_chunks and nothing to processed_chunks, and one line with *)
(* its index is appended to the failure log (unless the write of the line  *)
(* itself raises).  A task whose refinement call the probe aborted ends    *)
(* with the cards of its first pass, adds one to processed_chunks and      *)
(* nothing to failed_chunks and writes no failure line.                    *)
(***************************************************************************)
C40_CancellationAccounting ==
    /\ [][\A i \in DOMAIN task :
            /\ (task[i] = "queued" /\ task'[i] # "queued" /\ stop) =>
                  /\ task'[i] = "done"
                  /\ model_calls'[i] = 0
                  /\ fut'[i] = Finished(<<>>)
                  /\ metrics' = metrics
                  /\ failed_chunks_log' = failed_chunks_log
            /\ (task[i] = "calling" /\ task'[i] = "done"
                  /\ aborted_call'[i] = "generation") =>
                  /\ fut'[i].cards = <<>>
                  /\ metrics'.failed_chunks = metrics.failed_chunks + 1
                  /\ metrics'.processed_chunks = metrics.processed_chunks
                  /\ raising # "log_failed_chunk" =>
                        /\ Len(failed_chunks_log') = Len(failed_chunks_log) + 1
                        /\ failed_chunks_log'[Len(failed_chunks_log')].chunk_index = i
            /\ (task[i] = "calling" /\ task'[i] = "done"
                  /\ aborted_call'[i] = "refinement") =>
                  /\ fut'[i] = Finished(response[i].cards)
                  /\ response[i].cards # <<>>
                  /\ metrics'.processed_chunks = metrics.processed_chunks + 1
                  /\ metrics'.failed_chunks = metrics.failed_chunks
                  /\ failed_chunks_log' = failed_chunks_log]_vars
    /\ [](/\ \A i \in DoneChunks :
               model_calls[i] = 0 =>
                  /\ fut[i] = Finished(<<>>)
                  /\ aborted_call[i] = "none"
                  /\ EntriesOf(i) = {}
          /\ raising = "none" =>
               metrics.processed_chunks + metrics.failed_chunks =
                  Cardinality(CalledAndDone))

\* a cancelled run has returned in which one chunk was skipped at its
\* pre-dispatch check, one had its generation call aborted and one its
\* refinement call
C40_Witness ==
    /\ pc = "returned"
    /\ stop
    /\ \E i \in Chunks, j \in Chunks, k \in Chunks :
          /\ task[i] = "done" /\ model_calls[i] = 0
          /\ aborted_call[j] = "generation"
          /\ metrics.failed_chunks >= 1
          /\ aborted_call[k] = "refinement"
          /\ fut[k] = Finished(response[k].cards)
          /\ metrics.processed_chunks >= 1


(***************************************************************************)
(* Scheduling of a run: the calling thread keeps running, a free worker    *)
(* takes the oldest queued task, and every model call terminates, so a     *)
(* task that is calling finishes.  The caller is never obliged to request  *)
(* cancellation.                                                           *)
(***************************************************************************)
MainThread ==
    \/ HealthCheck
    \/ ChunkText
    \/ Submit
    \/ AsCompleted
    \/ \E i \in NextFuture : Consume(i)
    \/ LoopEnd
    \/ Return

Fairness ==
    /\ WF_vars(MainThread)
    /\ \A i \in 1..MaxChunks :
          /\ WF_vars(i \in DOMAIN task /\ TaskStart(i))
          /\ WF_vars(i \in DOMAIN task /\ TaskFinish(i))

SpecLive == Init /\ [][Next]_vars /\ Fairness

\* the run has ended: generate_qa_pairs has returned or raised
Ended == pc \in {"returned", "raised"}

\* a document of more chunks than the dispatch is explored for
BeyondDispatch == pc = "pool" /\ Cardinality(Chunks) > MaxChunks

\* the futures as_completed has still to yield
ToBeYielded == finished_snapshot \cup Range(waiter)

(***************************************************************************)
(* C38  Run termination.  Provided every model call terminates, every run  *)
(* ends.  When it has returned no task is queued or calling, and nothing   *)
(* changes afterwards; without cancellation every chunk has then made its  *)
(* call and been consumed, and no future is ever yielded twice or after it *)
(* was consumed; with cancellation every submitted chunk has finished,     *)
(* those that made no call with the empty list of the pre-dispatch check.  *)
(***************************************************************************)
C38_RunTermination ==
    /\ <>(Ended \/ BeyondDispatch)
    /\ [](Ended => \A i \in DOMAIN task : task[i] = "done")
    /\ [][Ended => UNCHANGED vars]_vars
    /\ []((Completed /\ ~stop) =>
             /\ DOMAIN task = Chunks
             /\ consumed = Chunks
             /\ \A i \in Chunks : model_calls[i] = 1)
    /\ [](/\ ToBeYielded \cap consumed = {}
          /\ \A k, l \in DOMAIN waiter : waiter[k] = waiter[l] => k = l
          /\ finished_snapshot \cap Range(waiter) = {})
    /\ [][\A i \in Chunks :
            (i \notin consumed /\ i \in consumed') =>
               /\ task[i] = "done"
               /\ consumed' = consumed \cup {i}]_vars
    /\ []((Completed /\ stop) =>
             /\ DOMAIN task = Chunks
             /\ \A i \in Chunks :
                  /\ task[i] = "done"
                  /\ model_calls[i] = 0 => fut[i] = Finished(<<>>))

\* a cancelled run of three chunks has returned: one chunk was consumed, one
\* finished without being consumed, one returned empty at its pre-dispatch
\* check
C38_Witness ==
    /\ pc = "returned"
    /\ stop
    /\ Cardinality(Chunks) = 3
    /\ Cardinality(consumed) = 1
    /\ \E i \in Chunks \ consumed : model_calls[i] = 1
    /\ \E i \in Chunks : task[i] = "done" /\ model_calls[i] = 0


\* every record inside a decoded value, in document order: a record, then the
\* records inside its values
RECURSIVE AllRecords(_)
AllRecords(node) ==
    (IF IsRecord(node) THEN <<node>> ELSE <<>>) \o
    Flatten([k \in DOMAIN node.vals |-> AllRecords(node.vals[k])])

(***************************************************************************)
(* C31  Records emitted.  The objects robust_parse_objects has emitted     *)
(* are, in document order, object after object, all the sub-objects with a *)
(* question key and an answer key that are reachable through the mappings  *)
(* and sequences of the objects decoded so far.                            *)
(***************************************************************************)
C31_RecordsEmitted ==
    results = Flatten([k \in DOMAIN decoded |-> AllRecords(decoded[k])])

\* the same for the records that lie inside no other record
C31_OutermostRecordsEmitted ==
    (\A k \in DOMAIN decoded : AllRecords(decoded[k]) = NestedRecords(decoded[k]))
        => C31_RecordsEmitted


(***************************************************************************)
(* filter_and_process_cards on records that differ in their category and   *)
(* in what their texts say about the allowed categories.                   *)
(***************************************************************************)
\* the texts "io", "Bi", "Gene", "cell gene"
Io == <<9, 15>>
Bi == <<28, 9>>
Gene == <<33, 5, 14, 5>>
QCellGene == <<3, 5, 12, 12, Blank, 7, 5, 14, 5>>

\* the texts "Cardiology", "Neurology, Brain", "heart attack", "cardiology",
\* "Brain damage"
Cardiology == <<29, 1, 18, 4, 9, 15, 12, 15, 7, 25>>
NeurologyBrain ==
    <<40, 5, 21, 18, 15, 12, 15, 7, 25, Comma, Blank, 28, 18, 1, 9, 14>>
QHeart == <<8, 5, 1, 18, 20, Blank, 1, 20, 20, 1, 3, 11>>
ACardiology == <<3, 1, 18, 4, 9, 15, 12, 15, 7, 25>>
QBrain == <<28, 18, 1, 9, 14, Blank, 4, 1, 13, 1, 7, 5>>

\* the allowed lists: none; three names of which two have the same length;
\* one with the default name; one whose first name lies inside the second;
\* one with a name of two parts
CategoryLists ==
    {<<>>, <<Bio, Gene, Cell>>, <<Bio, Default>>, <<Io, Bio>>,
     <<Cardiology, NeurologyBrain>>}

\* the categories of a record: absent, null, a listed name, the same in
\* lower case, texts holding one listed name or two, the beginning of a
\* listed name, an unrelated text, a second listed name
CategoryValues ==
    {[kind |-> "absent", parts |-> <<>>], [kind |-> "null", parts |-> <<>>]}
    \cup {[kind |-> "str", parts |-> <<d>>] :
             d \in {Bio, BioLower, BioX, Cell \o Bio, Bi, OtherDeck, Cell}}

CategoryItems ==
    {Item([kind |-> "str", parts |-> <<q>>], [kind |-> "absent", parts |-> <<>>],
          [kind |-> "str", parts |-> <<a>>], [kind |-> "absent", parts |-> <<>>],
          d) :
        q \in {QCell, QPlain, QCellGene}, a \in {APlain}, d \in CategoryValues}
    \cup
    {Item([kind |-> "str", parts |-> <<QHeart>>], [kind |-> "absent", parts |-> <<>>],
          [kind |-> "str", parts |-> <<ACardiology>>],
          [kind |-> "absent", parts |-> <<>>], [kind |-> "absent", parts |-> <<>>]),
     Item([kind |-> "str", parts |-> <<QBrain>>], [kind |-> "absent", parts |-> <<>>],
          [kind |-> "str", parts |-> <<APlain>>],
          [kind |-> "absent", parts |-> <<>>], [kind |-> "absent", parts |-> <<>>])}

CategoryBatches(n) == UNION {[1..k -> CategoryItems] : k \in 0..n}

InitCategory ==
    /\ flt_pc = "called"
    /\ raw_data_list \in CategoryBatches(MaxBatch)
    /\ deck_names \in CategoryLists
    /\ smart_deck_match \in BOOLEAN
    /\ filter_yes_no \in BOOLEAN
    /\ flt_result = [raises |-> FALSE, cards |-> <<>>]
    /\ RunIdle
    /\ LMIdle
    /\ ChunkIdle
    /\ ParseIdle
    /\ RefineIdle
    /\ PoolIdle
    /\ UtilIdle

SpecCategory == InitCategory /\ [][NextFilter]_vars

\* the call has returned a list; every record of these batches is kept
CardsReturned == flt_pc = "returned" /\ ~flt_result.raises

\* the category record k supplies, 'Default' when it has none
Supplied(k) == deck_of(raw_data_list[k])

Allowed == {deck_names[i] : i \in DOMAIN deck_names}

\* the allowed names equal to d ignoring case, and those lying inside d
EqualIgnoringCase(d) == {i \in DOMAIN deck_names : lower(deck_names[i]) = lower(d)}
LyingInside(d) == {i \in DOMAIN deck_names : contains(d, deck_names[i])}

\* the earliest allowed name among those at the indexes I
Earliest(I) == deck_names[CHOOSE i \in I : \A j \in I : i <= j]

\* the category d after the resolution step
Resolved(d) ==
    IF d \in Allowed THEN d
    ELSE IF EqualIgnoringCase(d) # {} THEN Earliest(EqualIgnoringCase(d))
    ELSE IF LyingInside(d) # {} THEN Earliest(LyingInside(d))
    ELSE IF Default \in Allowed THEN Default
    ELSE deck_names[1]

QLower(k) == lower(strip(raw_data_list[k].question.parts[1]))
ALower(k) == lower(strip(raw_data_list[k].answer.parts[1]))

\* the score of a category name against the texts of record k
ScoreOf(name, k) == score_deck_raw(name, QLower(k), ALower(k))

\* the highest score an allowed name reaches on record k, and the earliest
\* allowed name that reaches it
BestScore(k) ==
    CHOOSE s \in {ScoreOf(deck_names[i], k) : i \in DOMAIN deck_names} :
        \A i \in DOMAIN deck_names : ScoreOf(deck_names[i], k) <= s

BestName(k) ==
    Earliest({i \in DOMAIN deck_names : ScoreOf(deck_names[i], k) = BestScore(k)})

\* record k is reassigned by the smart step
Reassigned(k) ==
    /\ BestScore(k) > 0
    /\ BestScore(k) > ScoreOf(Resolved(Supplied(k)), k)

\* the category and the score of record k after the smart step; without an
\* allowed list or without smart matching the step is not taken
AssignedDeck(k) ==
    IF deck_names = <<>> \/ ~smart_deck_match THEN Supplied(k)
    ELSE IF Reassigned(k) THEN BestName(k)
    ELSE Resolved(Supplied(k))

AssignedScore(k) ==
    IF deck_names = <<>> \/ ~smart_deck_match THEN 0
    ELSE IF Reassigned(k) THEN BestScore(k)
    ELSE ScoreOf(Resolved(Supplied(k)), k)

(***************************************************************************)
(* C34  Smart category reassignment.  With smart matching and a non-empty  *)
(* allowed list, a record whose texts match some category (its score after *)
(* the step is positive) is returned with the earliest best-scoring        *)
(* allowed name if that score is positive and strictly greater than the    *)
(* score of its resolved category, and with its resolved category          *)
(* otherwise, equal scores included; the same holds for the only record of *)
(* a batch whatever its score.                                             *)
(***************************************************************************)
C34_SmartReassignment ==
    (CardsReturned /\ deck_names # <<>> /\ smart_deck_match) =>
        /\ Len(flt_result.cards) = Len(raw_data_list)
        /\ \A k \in DOMAIN raw_data_list :
              (AssignedScore(k) > 0 \/ Len(raw_data_list) = 1) =>
                 flt_result.cards[k].deck =
                    (IF Reassigned(k) THEN BestName(k)
                     ELSE Resolved(Supplied(k)))

\* with ["Bio", "Gene", "Cell"] and the question "cell gene": the record
\* filed under "Cell" stays there, "Gene" scoring the same; the one filed
\* under "Bio" moves to "Gene", the earlier of the two best names
C34_Witness ==
    /\ CardsReturned
    /\ smart_deck_match
    /\ deck_names = <<Bio, Gene, Cell>>
    /\ Len(raw_data_list) = 2
    /\ QLower(1) = QCellGene /\ Supplied(1) = Cell
    /\ QLower(2) = QCellGene /\ Supplied(2) = Bio
    /\ ScoreOf(Gene, 1) = ScoreOf(Cell, 1)
    /\ flt_result.cards[1].deck = Cell
    /\ flt_result.cards[2].deck = Gene

\* the example of the two medical categories
C34_Example ==
    /\ CardsReturned
    /\ smart_deck_match
    /\ deck_names = <<Cardiology, NeurologyBrain>>
    /\ Len(raw_data_list) = 2
    /\ QLower(1) = lower(QHeart) /\ ALower(1) = ACardiology
    /\ QLower(2) = lower(QBrain)
    /\ flt_result.cards[1].deck = Cardiology
    /\ flt_result.cards[2].deck = NeurologyBrain


\* the categories and the scores of the records after the smart step
AssignedDecks == [k \in DOMAIN raw_data_list |-> AssignedDeck(k)]
AssignedScores == [k \in DOMAIN raw_data_list |-> AssignedScore(k)]

\* the records that vote: those with a positive score, or all without one
Voters(score) ==
    IF \E k \in DOMAIN score : score[k] > 0
    THEN {k \in DOMAIN score : score[k] > 0}
    ELSE DOMAIN score

VotesFor(d, deck, voters) == Cardinality({k \in voters : deck[k] = d})

\* the categories no other category outnumbers among the voters
MostFrequent(deck, voters) ==
    {deck[v] : v \in {u \in voters :
        \A w \in voters :
            VotesFor(deck[w], deck, voters) <= VotesFor(deck[u], deck, voters)}}

\* the returned categories when the zero-score records are moved to d
VotedTo(d, deck, score) ==
    \A k \in DOMAIN deck :
        flt_result.cards[k].deck = (IF score[k] = 0 THEN d ELSE deck[k])

\* the returned categories when no record is moved
NothingMoved(deck) ==
    \A k \in DOMAIN deck : flt_result.cards[k].deck = deck[k]

C36_EmptyListUnconstrained ==
    (CardsReturned /\ deck_names = <<>>) =>
        /\ Len(flt_result.cards) = Len(raw_data_list)
        /\ \A k \in DOMAIN raw_data_list :
              flt_result.cards[k].deck = Supplied(k)

\* the same without smart matching
C36_UnconstrainedWithoutSmart == ~smart_deck_match => C36_EmptyListUnconstrained

====
